---- MODULE Spec2Model ----
(***************************************************************************)
(* Model of gdml_editor/gui.py: the volume-hierarchy reconciler            *)
(* (GDMLEditorApp.populate_volume_tree) and the material resolver          *)
(* (GDMLEditorApp._ensure_material_in_registry and the material step of    *)
(* InsertVolumeDialog.insert_volume) over one pyg4ometry registry.         *)
(***************************************************************************)
EXTENDS Integers, Sequences, FiniteSets, TLC

VARIABLES
    logicalVolumeDict,   \* registry.logicalVolumeDict : volume name -> volume object id
    lvObj,               \* volume objects : id -> [name, material, daughterVolumes]
    physicalVolumeDict,  \* registry.physicalVolumeDict : placement name -> placement id
    pvObj,               \* placement objects : id -> [name, motherVolume, logicalVolume]
    worldVolume,         \* registry.getWorldVolume() : volume object id, 0 for None
    materialDict,        \* registry.materialDict : material name -> material instance id
    matObj,              \* material instances : id -> [name, kind, density, ncomp, formula, ...]
    userMaterials,       \* UserMaterialDatabase.materials : name -> record
    volume_tree,         \* the Treeview rows, in display order : [name, parent, mat]
    cached_nist_materials, \* self._cached_nist_materials : <<>> for None, <<names>> for a list
    search_var,          \* the text of the search field
    db_file,             \* ~/.gdml_editor/user_materials.json : [materials, intact, fault]
    viewer,              \* viewer_temp_file, what it holds, and viewer_process
    last,                \* what the handler that ran last did and returned
    steps                \* number of handlers run so far

vars == <<logicalVolumeDict, lvObj, physicalVolumeDict, pvObj, worldVolume,
          materialDict, matObj, userMaterials, volume_tree, cached_nist_materials,
          search_var, db_file, viewer, last, steps>>

\* ------------------------------------------------------------------ bounds

MaxSteps == 2

MaxTreeSteps == 1

MaxListSteps == 2

MaxViewSteps == 2

MaxViewerSteps == 2

MaxPlaceSteps == 2

\* ------------------------------------------------------------------ names

\* Python None and the empty string: both are false in `if mother and child`.
NoName == ""

AssemblyMarker == "(Assembly)"

VolNames == {"W", "a", "B", "c"}

\* str.lower() on the volume names of the model.
Lower(s) ==
    CASE s = "W" -> "w"
      [] s = "B" -> "b"
      [] OTHER   -> s

\* Position of a lower-cased name in Python's string order.
LowerRank(s) ==
    CASE Lower(s) = "a" -> 1
      [] Lower(s) = "b" -> 2
      [] Lower(s) = "c" -> 3
      [] Lower(s) = "w" -> 4
      [] OTHER          -> 0

\* sorted(S, key=lambda s: s.lower()) as a sequence.
RECURSIVE SortedByLower(_)
SortedByLower(S) ==
    IF S = {} THEN <<>>
    ELSE LET m == CHOOSE x \in S : \A y \in S : LowerRank(x) <= LowerRank(y)
         IN  <<m>> \o SortedByLower(S \ {m})

Range(f) == {f[x] : x \in DOMAIN f}

\* ------------------------------------------------------------------ references

\* A parent or child link of a placement: a volume object or a bare name.
ObjRef(i) == [k |-> "obj", id |-> i, s |-> NoName]
StrRef(n) == [k |-> "str", id |-> 0, s |-> n]

\* The geometry side of the registry, as populate_volume_tree reads it.
Geometry ==
    [logicalVolumeDict |-> logicalVolumeDict, lvObj |-> lvObj,
     physicalVolumeDict |-> physicalVolumeDict, pvObj |-> pvObj,
     worldVolume |-> worldVolume, matObj |-> matObj]

\* populate_volume_tree, lines 1602-1611: isinstance(x, str) -> x, else x.name.
NameOfRef(g, r) ==
    IF r.k = "str" THEN r.s ELSE g.lvObj[r.id].name

\* populate_volume_tree, lines 1619-1620: getattr(child_obj, "name", None);
\* a str has no attribute `name`, so a bare name yields None.
NameOfDaughterRef(g, r) ==
    IF r.k = "str" THEN NoName ELSE g.lvObj[r.id].name

\* ------------------------------------------------------------------ reconcile

\* Source 1, lines 1597-1614: the (mother, child) names of registry.physicalVolumeDict.
PlacementEdges(g) ==
    {e \in {<<NameOfRef(g, g.pvObj[p].motherVolume), NameOfRef(g, g.pvObj[p].logicalVolume)>> :
                p \in Range(g.physicalVolumeDict)} :
        e[1] # NoName /\ e[2] # NoName}

\* Source 2, lines 1617-1622: each volume's own daughterVolumes, under its dict key.
DaughterEdges(g) ==
    {e \in UNION {{<<m, NameOfDaughterRef(g, g.pvObj[pv].logicalVolume)>> :
                     pv \in Range(g.lvObj[g.logicalVolumeDict[m]].daughterVolumes)} :
                  m \in DOMAIN g.logicalVolumeDict} :
        e[2] # NoName}

\* children_by_mother.get(name, set()) for a set of (mother, child) edges.
ChildrenIn(edges, name) == {e[2] : e \in {x \in edges : x[1] = name}}

\* lines 1594-1622: the merged child map, as its set of edges.
children_by_mother(g) == PlacementEdges(g) \cup DaughterEdges(g)

\* lines 1629-1633: the material column of a row.
MatNameOf(g, lv_name) ==
    IF lv_name \in DOMAIN g.logicalVolumeDict
       /\ g.lvObj[g.logicalVolumeDict[lv_name]].material # 0
    THEN g.matObj[g.lvObj[g.logicalVolumeDict[lv_name]].material].name
    ELSE AssemblyMarker

Row(g, lv_name, parent_item) ==
    [name |-> lv_name, parent |-> parent_item, mat |-> MatNameOf(g, lv_name)]

RECURSIVE add_lv_per_branch(_, _, _, _, _)
RECURSIVE add_children_per_branch(_, _, _, _, _)
\* A walk whose visited set is kept per branch instead of for the whole walk.
add_lv_per_branch(g, edges, lv_name, parent_item, st) ==
    IF lv_name \in st.visited THEN [st EXCEPT !.calls = @ + 1]
    ELSE LET st1 == [items   |-> Append(st.items, Row(g, lv_name, parent_item)),
                     visited |-> st.visited \cup {lv_name},
                     calls   |-> st.calls + 1]
             st2 == add_children_per_branch(g, edges, SortedByLower(ChildrenIn(edges, lv_name)),
                                            lv_name, st1)
         IN  [st2 EXCEPT !.visited = st1.visited]

add_children_per_branch(g, edges, seq, item, st) ==
    IF seq = <<>> THEN st
    ELSE add_children_per_branch(g, edges, Tail(seq), item,
                                 add_lv_per_branch(g, edges, Head(seq), item, st))

RECURSIVE add_lv_by_name(_, _, _, _, _)
RECURSIVE add_children(_, _, _, _, _)
\* add_lv_by_name, lines 1624-1638. st = [items, visited, calls]; calls counts the
\* invocations of add_lv_by_name.
add_lv_by_name(g, edges, lv_name, parent_item, st) ==
    IF lv_name \in st.visited THEN [st EXCEPT !.calls = @ + 1]
    ELSE LET st1 == [items   |-> Append(st.items, Row(g, lv_name, parent_item)),
                     visited |-> st.visited \cup {lv_name},
                     calls   |-> st.calls + 1]
         IN  add_children(g, edges, SortedByLower(ChildrenIn(edges, lv_name)), lv_name, st1)

\* the for loop of lines 1637-1638
add_children(g, edges, seq, item, st) ==
    IF seq = <<>> THEN st
    ELSE add_children(g, edges, Tail(seq), item, add_lv_by_name(g, edges, Head(seq), item, st))

EmptyWalk == [items |-> <<>>, visited |-> {}, calls |-> 0]

\* lines 1579-1586: the world volume's name, NoName when there is none.
WorldNameOf(g) ==
    IF g.worldVolume = 0 THEN NoName ELSE g.lvObj[g.worldVolume].name

WorldName == WorldNameOf(Geometry)

\* The walk of lines 1573-1640 over a given edge set.
TreeWalk(g, edges) ==
    IF WorldNameOf(g) = NoName THEN EmptyWalk
    ELSE add_lv_by_name(g, edges, WorldNameOf(g), NoName, EmptyWalk)

\* A tree builder that lists the volumes it did not reach after the tree.
populate_with_orphans(g) ==
    LET w       == TreeWalk(g, children_by_mother(g))
        orphans == SortedByLower(DOMAIN g.logicalVolumeDict \ w.visited)
    IN  w.items \o [i \in DOMAIN orphans |-> Row(g, orphans[i], NoName)]

\* populate_volume_tree, lines 1571-1640: the rows it leaves in the Treeview.
populate_volume_tree(g) == TreeWalk(g, children_by_mother(g)).items

\* ------------------------------------------------------------------ materials

MatNames == {"Steel", "G4_AIR", "Mix", "Nope"}

\* material_name.startswith('G4_'), lines 978 and 1719
StartsWithG4(n) == n = "G4_AIR"

\* Mass fractions are counted in units of 1e-4, so 1.0 is FractionOne and the
\* 0.001 of line 464 is FractionTolerance.
FractionOne == 10000
FractionTolerance == 10

\* Element symbols nist_element_2geant4Element knows (the others make it raise).
KnownElements == {"H", "O"}

Comp(e, f) == [element |-> e, fraction |-> f]

\* A user-catalog record (the material_data of add_material, lines 62-80).
\* The key 'composition' holds a formula string for a compound and a list of
\* element rows for a mixture: here the fields formula and composition.
\* An absent optional key is the empty sequence.
Record(type, density, unit, formula, composition, state, temperature, temp_unit, pressure, pressure_unit) ==
    [type |-> type, density |-> density, density_unit |-> unit,
     formula |-> formula, composition |-> composition,
     state |-> state, temperature |-> temperature, temp_unit |-> temp_unit,
     pressure |-> pressure, pressure_unit |-> pressure_unit]

WaterMix   == Record("mixture", 1, "g/cm3", "", <<Comp("H", 1120), Comp("O", 8880)>>,
                     <<"liquid">>, <<2000>>, <<"C">>, <<>>, <<>>)
EdgeMix    == Record("mixture", 1, "g/cm3", "", <<Comp("H", 1130), Comp("O", 8880)>>,
                     <<>>, <<>>, <<>>, <<>>, <<>>)
OverMix    == Record("mixture", 1, "g/cm3", "", <<Comp("H", 1131), Comp("O", 8880)>>,
                     <<>>, <<>>, <<>>, <<>>, <<>>)
ShortMix   == Record("mixture", 1000, "kg/m3", "", <<Comp("H", 5000), Comp("O", 4000)>>,
                     <<>>, <<>>, <<>>, <<>>, <<>>)
OddMix     == Record("mixture", 2, "g/cm3", "", <<Comp("H", 5000), Comp("Xx", 5000)>>,
                     <<>>, <<>>, <<>>, <<>>, <<>>)
WaterCmp   == Record("compound", 1000, "mg/cm3", "H2O", <<>>, <<"liquid">>, <<>>, <<>>, <<1>>, <<"atm">>)

Records == {WaterMix, EdgeMix, OverMix, ShortMix, OddMix, WaterCmp}

RECURSIVE SumFractions(_)
SumFractions(composition) ==
    IF composition = <<>> THEN 0
    ELSE Head(composition).fraction + SumFractions(Tail(composition))

\* abs(total_fraction - 1.0) > 0.001, line 464
FractionsOutOfTolerance(composition) ==
    LET d == SumFractions(composition) - FractionOne
    IN  (IF d < 0 THEN 0 - d ELSE d) > FractionTolerance

\* _convert_density_to_g_cm3, lines 1483-1490, in units of 1e-3 g/cm3.
ConvertDensityToGcm3(density, unit) ==
    IF unit \in {"mg/cm3", "kg/m3"} THEN density ELSE density * 1000

\* _convert_temperature_to_kelvin, lines 1492-1496, in units of 0.01 K.
ConvertTemperatureToKelvin(mat_data) ==
    LET temp == mat_data.temperature[1]
        unit == IF mat_data.temp_unit = <<>> THEN "K" ELSE mat_data.temp_unit[1]
    IN  IF unit = "C" THEN temp + 27315 ELSE temp

\* _convert_pressure_to_pascal, lines 1498-1507.
ConvertPressureToPascal(mat_data) ==
    LET pressure == mat_data.pressure[1]
        unit == IF mat_data.pressure_unit = <<>> THEN "pascal" ELSE mat_data.pressure_unit[1]
    IN  CASE unit = "bar" -> pressure * 100000
          [] unit = "atm" -> pressure * 101325
          [] OTHER        -> pressure

\* A material instance of the library.
Material(name, kind, density, ncomp, state) ==
    [name |-> name, kind |-> kind, density |-> density, ncomp |-> ncomp,
     formula |-> "", components |-> <<>>, state |-> state, temperature |-> <<>>, pressure |-> <<>>]

\* The registry after the library's Material constructor registered `inst`:
\* [md |-> materialDict, mo |-> the instances].
Registered(reg, inst) ==
    [md |-> [n \in DOMAIN reg.md \cup {inst.name} |->
                IF n = inst.name THEN Len(reg.mo) + 1 ELSE reg.md[n]],
     mo |-> Append(reg.mo, inst)]

\* What a resolution returns: the outcome, the registry it leaves and what it called.
Resolution(ok, err, result, reg, source, nistCalls, userLookups) ==
    [ok |-> ok, err |-> err, result |-> result, md |-> reg.md, mo |-> reg.mo,
     source |-> source, nistCalls |-> nistCalls, userLookups |-> userLookups,
     raised |-> FALSE]

\* The same, reached through the except branch of lines 1723-1727 (982-988).
Raised(resolution) == [resolution EXCEPT !.raised = TRUE]

\* mat.add_element_massfraction for the elements of `composition`, lines 1471-1473;
\* _get_or_create_element (lines 1509-1521) raises on a symbol the element
\* database does not know. Returns [mo, raised].
RECURSIVE AddElements(_, _, _)
AddElements(mo, id, composition) ==
    IF composition = <<>> THEN [mo |-> mo, raised |-> FALSE]
    ELSE IF Head(composition).element \notin KnownElements
         THEN [mo |-> mo, raised |-> TRUE]
         ELSE AddElements([mo EXCEPT ![id].components = Append(@, Head(composition))],
                          id, Tail(composition))

\* The optional properties of lines 1476-1479.
WithOptional(inst, mat_data) ==
    [inst EXCEPT
        !.temperature = IF mat_data.temperature # <<>>
                        THEN <<ConvertTemperatureToKelvin(mat_data)>> ELSE @,
        !.pressure    = IF mat_data.pressure # <<>>
                        THEN <<ConvertPressureToPascal(mat_data)>> ELSE @]

\* create_user_material_in_registry, lines 1426-1481. lib is the outcome of the
\* library's constructor: "ok", or "fail" when it raises.
create_user_material_in_registry(reg, mat_name, mat_data, lib) ==
    LET density == ConvertDensityToGcm3(mat_data.density, mat_data.density_unit)
        state   == IF mat_data.state = <<>> THEN "solid" ELSE mat_data.state[1]
        inst    == Material(mat_name, mat_data.type, density,
                            IF mat_data.type = "compound" THEN 0 ELSE Len(mat_data.composition),
                            state)
        reg1    == Registered(reg, inst)
        id      == Len(reg.mo) + 1
    IN  IF lib # "ok"
        THEN Resolution(FALSE, "ExternalLibraryFailure", 0, reg, "user", 0, 1)
        ELSE IF mat_data.type = "compound"
        THEN Resolution(TRUE, "", id,
                        [reg1 EXCEPT !.mo[id] = WithOptional([@ EXCEPT !.formula = mat_data.formula],
                                                             mat_data)],
                        "user", 0, 1)
        ELSE LET added == AddElements(reg1.mo, id, mat_data.composition)
             IN  IF added.raised
                 THEN Resolution(FALSE, "UnknownElement", 0,
                                 [reg1 EXCEPT !.mo = added.mo], "user", 0, 1)
                 ELSE Resolution(TRUE, "", id,
                                 [reg1 EXCEPT !.mo = [added.mo EXCEPT ![id] = WithOptional(@, mat_data)]],
                                 "user", 0, 1)

\* A reference-material call whose failure is final: the registry is not looked
\* at again after the library raised.
NistMaterialWithoutFallback(reg, material_name, lib) ==
    LET reg1 == Registered(reg, Material(material_name, "nist", 0, 0, "solid"))
        id   == Len(reg.mo) + 1
    IN  CASE lib = "ok"      -> Resolution(TRUE, "", id, reg1, "nist", 1, 0)
          [] lib = "partial" ->
                Raised(Resolution(FALSE, "UnknownReferenceMaterial", 0, reg1, "nist", 1, 0))
          [] OTHER           ->
                Raised(Resolution(FALSE, "UnknownReferenceMaterial", 0, reg, "nist", 1, 0))

\* g4.nist_material_2geant4Material(name, registry), lines 1721-1727: lib is "ok"
\* (materialized and returned), "partial" (it raised after the registry got the
\* entry) or "fail" (it raised and the registry has no entry).
NistMaterial(reg, material_name, lib) ==
    LET reg1 == Registered(reg, Material(material_name, "nist", 0, 0, "solid"))
        id   == Len(reg.mo) + 1
    IN  CASE lib = "ok"      -> Resolution(TRUE, "", id, reg1, "nist", 1, 0)
          [] lib = "partial" ->
                IF material_name \in DOMAIN reg1.md
                THEN Raised(Resolution(TRUE, "", reg1.md[material_name], reg1, "nist", 1, 0))
                ELSE Raised(Resolution(FALSE, "UnknownReferenceMaterial", 0, reg1, "nist", 1, 0))
          [] OTHER           ->
                IF material_name \in DOMAIN reg.md
                THEN Raised(Resolution(TRUE, "", reg.md[material_name], reg, "nist", 1, 0))
                ELSE Raised(Resolution(FALSE, "UnknownReferenceMaterial", 0, reg, "nist", 1, 0))

\* UserMaterialDatabase.get_material, lines 90-92: the record, <<>> for None.
get_material(name) ==
    IF name \in DOMAIN userMaterials THEN <<userMaterials[name]>> ELSE <<>>

\* A resolver that never looks the name up in the registry.
ensure_without_registry_lookup(reg, material_name, lib) ==
    IF StartsWithG4(material_name)
    THEN NistMaterial(reg, material_name, lib)
    ELSE IF get_material(material_name) # <<>>
    THEN create_user_material_in_registry(reg, material_name, get_material(material_name)[1], lib)
    ELSE Resolution(FALSE, "UnknownMaterial", 0, reg, "none", 0, 1)

\* A resolver that tests the G4_ prefix before it looks the name up in the registry.
ensure_prefix_before_registry(reg, material_name, lib) ==
    IF StartsWithG4(material_name)
    THEN NistMaterial(reg, material_name, lib)
    ELSE IF material_name \in DOMAIN reg.md
    THEN Resolution(TRUE, "", reg.md[material_name], reg, "registry", 0, 0)
    ELSE IF get_material(material_name) # <<>>
    THEN create_user_material_in_registry(reg, material_name, get_material(material_name)[1], lib)
    ELSE Resolution(FALSE, "UnknownMaterial", 0, reg, "none", 0, 1)

\* A resolver that asks the user catalog before it tests the G4_ prefix.
ensure_catalog_before_prefix(reg, material_name, lib) ==
    IF material_name \in DOMAIN reg.md
    THEN Resolution(TRUE, "", reg.md[material_name], reg, "registry", 0, 0)
    ELSE IF get_material(material_name) # <<>>
    THEN create_user_material_in_registry(reg, material_name, get_material(material_name)[1], lib)
    ELSE IF StartsWithG4(material_name)
    THEN NistMaterial(reg, material_name, lib)
    ELSE Resolution(FALSE, "UnknownMaterial", 0, reg, "none", 0, 1)

\* A resolver that gives a name nobody knows a material of its own.
ensure_with_default_material(reg, material_name, lib) ==
    IF material_name \in DOMAIN reg.md
    THEN Resolution(TRUE, "", reg.md[material_name], reg, "registry", 0, 0)
    ELSE IF StartsWithG4(material_name)
    THEN NistMaterial(reg, material_name, lib)
    ELSE IF get_material(material_name) # <<>>
    THEN create_user_material_in_registry(reg, material_name, get_material(material_name)[1], lib)
    ELSE Resolution(TRUE, "", Len(reg.mo) + 1,
                    Registered(reg, Material(material_name, "mixture", 1000, 0, "solid")),
                    "none", 0, 1)

\* _ensure_material_in_registry, lines 1709-1733.
ensure_material_in_registry(reg, material_name, lib) ==
    IF material_name \in DOMAIN reg.md
    THEN Resolution(TRUE, "", reg.md[material_name], reg, "registry", 0, 0)
    ELSE IF StartsWithG4(material_name)
    THEN NistMaterial(reg, material_name, lib)
    ELSE IF get_material(material_name) # <<>>
    THEN create_user_material_in_registry(reg, material_name, get_material(material_name)[1], lib)
    ELSE Resolution(FALSE, "UnknownMaterial", 0, reg, "none", 0, 1)

Registry == [md |-> materialDict, mo |-> matObj]

\* The element rows of lines 1010-1017: a symbol the element database does not
\* know gets a placeholder element, and every row is added.
RECURSIVE AddElementsWithPlaceholder(_, _, _)
AddElementsWithPlaceholder(mo, id, composition) ==
    IF composition = <<>> THEN mo
    ELSE AddElementsWithPlaceholder([mo EXCEPT ![id].components = Append(@, Head(composition))],
                                    id, Tail(composition))

\* InsertVolumeDialog._convert_density, lines 1144-1147, in units of 1e-3 g/cm3.
ConvertDensity(density, unit) ==
    IF unit \in {"mg/cm3", "kg/m3"} THEN density ELSE density * 1000

\* user_mats of lines 992-995: the catalog as the file holds it.
user_mats == db_file.materials

\* The material step of InsertVolumeDialog.insert_volume, lines 975-1020.
dialog_material(reg, material_name, lib) ==
    IF material_name \in DOMAIN reg.md
    THEN Resolution(TRUE, "", reg.md[material_name], reg, "registry", 0, 0)
    ELSE IF StartsWithG4(material_name)
    THEN NistMaterial(reg, material_name, lib)
    ELSE IF ~db_file.intact
    \* json.load of line 995 raises on a file that is not whole
    THEN Resolution(FALSE, "ExternalLibraryFailure", 0, reg, "user", 0, 1)
    ELSE IF material_name \notin DOMAIN user_mats
    THEN Resolution(FALSE, "UnknownMaterial", 0, reg, "none", 0, 1)
    ELSE IF lib # "ok"
    THEN Resolution(FALSE, "ExternalLibraryFailure", 0, reg, "user", 0, 1)
    ELSE LET mat_data == user_mats[material_name]
             density  == ConvertDensity(mat_data.density, mat_data.density_unit)
             id       == Len(reg.mo) + 1
             inst     == Material(material_name, mat_data.type, density,
                                  IF mat_data.type = "compound" THEN 0
                                  ELSE Len(mat_data.composition), "solid")
             reg1     == Registered(reg, inst)
         IN  IF mat_data.type = "compound"
             THEN Resolution(TRUE, "", id, [reg1 EXCEPT !.mo[id].formula = mat_data.formula],
                             "user", 0, 1)
             ELSE Resolution(TRUE, "", id,
                             [reg1 EXCEPT !.mo = AddElementsWithPlaceholder(@, id, mat_data.composition)],
                             "user", 0, 1)

\* ------------------------------------------------------------------ catalog file

\* What the file system does to a write of the catalog file: nothing wrong, the
\* open of line 56 raises, or json.dump of line 57 raises after the open has
\* truncated the file.
FileFaults == {"none", "open", "dump"}

\* The catalog file as UserMaterialDatabase.load (lines 40-50) read it.
FileOf(catalog, fault) == [materials |-> catalog, intact |-> TRUE, fault |-> fault]

\* UserMaterialDatabase.save, lines 52-60: the file it leaves behind.
save(file, materials) ==
    CASE file.fault = "none" -> [file EXCEPT !.materials = materials, !.intact = TRUE]
      [] file.fault = "open" -> file
      [] OTHER               -> [file EXCEPT !.intact = FALSE]

\* A save that swallows the exception of the write.
SaveNeverRaises(file) == FALSE

\* The `raise` of line 60.
SaveRaises(file) == file.fault # "none"

\* ------------------------------------------------------------------ material lists

\* g4.getNistMaterialList(), lines 872 and 1690.
NistList == {"G4_AIR", "G4_Si", "G4_WATER"}

\* The names the Insert Volume dialog falls back to, lines 879-882.
FallbackNistList == {"G4_AIR", "G4_WATER"}

\* The names a material list can hold.
ListedNames == MatNames \cup NistList \cup {"air"}

\* Position of s.lower() in Python's string order.
LowerKeyRank ==
    [n \in ListedNames |->
        CASE n = "air"      -> 1
          [] n = "G4_AIR"   -> 2
          [] n = "G4_Si"    -> 3
          [] n = "G4_WATER" -> 4
          [] n = "Mix"      -> 5
          [] n = "Nope"     -> 6
          [] OTHER          -> 7]

\* Position of s itself in Python's string order (upper case sorts before lower).
CodePointRank ==
    [n \in ListedNames |->
        CASE n = "G4_AIR"   -> 1
          [] n = "G4_Si"    -> 2
          [] n = "G4_WATER" -> 3
          [] n = "Mix"      -> 4
          [] n = "Nope"     -> 5
          [] n = "Steel"    -> 6
          [] OTHER          -> 7]

\* sorted(S, key=rank) as a sequence.
RECURSIVE SortedByRank(_, _)
SortedByRank(S, rank) ==
    IF S = {} THEN <<>>
    ELSE LET m == CHOOSE x \in S : \A y \in S : rank[x] <= rank[y]
         IN  <<m>> \o SortedByRank(S \ {m}, rank)

\* list.sort() of a list with the key rank: a stable insertion of each item.
RECURSIVE SortList(_, _)
SortList(l, rank) ==
    IF l = <<>> THEN <<>>
    ELSE LET rest == SortList(Tail(l), rank)
             k    == Cardinality({i \in DOMAIN rest : rank[rest[i]] < rank[Head(l)]})
         IN  SubSeq(rest, 1, k) \o <<Head(l)>> \o SubSeq(rest, k + 1, Len(rest))

\* `for mat in names: if mat not in materials: materials.append(mat)`,
\* lines 873-875, 883-885 and 895-897, for the names in the order of `names`.
RECURSIVE AppendMissing(_, _)
AppendMissing(materials, names) ==
    IF names = <<>> THEN materials
    ELSE AppendMissing(IF \E i \in DOMAIN materials : materials[i] = Head(names)
                       THEN materials ELSE Append(materials, Head(names)),
                       Tail(names))

\* UserMaterialDatabase.list_materials, lines 94-96.
list_materials(catalog) == DOMAIN catalog

\* GDMLEditorApp._get_all_available_materials, lines 1679-1700, on the registry's
\* material map md, the catalog and the cache; lib is what getNistMaterialList
\* does if it is called: "ok" or "fail". Returns the list, the cache it leaves
\* and the fetch it made ("none" when it made none).
get_all_available_materials(md, catalog, cache, lib) ==
    LET cache1    == IF cache = <<>>
                     THEN (IF lib = "ok" THEN <<NistList>> ELSE <<{}>>)
                     ELSE cache
        materials == DOMAIN md \cup cache1[1] \cup list_materials(catalog)
    IN  [listing |-> SortedByRank(materials, LowerKeyRank),
         cache   |-> cache1,
         fetch   |-> IF cache = <<>> THEN lib ELSE "none"]

\* InsertVolumeDialog._get_all_available_materials, lines 862-902.
dialog_get_all_available_materials(md, catalog, lib) ==
    LET existing == SortedByRank(DOMAIN md, CodePointRank)
        nist     == SortedByRank(IF lib = "ok" THEN NistList ELSE FallbackNistList, CodePointRank)
        user     == SortedByRank(DOMAIN catalog, LowerKeyRank)
    IN  [listing |-> SortList(AppendMissing(AppendMissing(existing, nist), user), CodePointRank),
         fetch   |-> lib]

\* ------------------------------------------------------------------ handlers

\* What a handler leaves behind for the properties to read: the operation, its
\* arguments, its outcome, what its material resolution called, and whether the
\* handler before it was a successful resolution of the same name.
Outcome(op, name, volume, r, repeat, prevSource) ==
    [op |-> op, name |-> name, volume |-> volume, ok |-> r.ok, err |-> r.err,
     result |-> r.result, source |-> r.source, nistCalls |-> r.nistCalls,
     userLookups |-> r.userLookups, raised |-> r.raised,
     repeat |-> repeat, prevSource |-> prevSource, fetch |-> "none", listing |-> <<>>]

NoResolution(ok, err) ==
    [ok |-> ok, err |-> err, result |-> 0, source |-> "none", nistCalls |-> 0, userLookups |-> 0,
     raised |-> FALSE]

Plain(op, name, volume, ok, err) == Outcome(op, name, volume, NoResolution(ok, err), FALSE, "none")

TreeNames == {volume_tree[i].name : i \in DOMAIN volume_tree}

\* ------------------------------------------------------------------ viewer

\* What gdml.Writer writes for self.registry (lines 2159-2161 and 2204-2207).
Detector == [geometry |-> Geometry, materialDict |-> materialDict]

\* writer.write(self.viewer_temp_file): the file is written in full, the open
\* raises, or the write raises midway.
WriteOutcomes == {"ok", "unopened", "partial"}

\* Lines 1273-1274: no temporary file and no process. content is the geometry the
\* file holds (<<>> when it holds none that can be read), writes counts the calls
\* of writer.write, wrote is the outcome of the last one, launchedOn is what the
\* file held when Popen was called.
NoViewer ==
    [temp_file |-> FALSE, content |-> <<>>, process |-> "none", writes |-> 0,
     wrote |-> "none", launchedOn |-> <<>>]

\* self.viewer_temp_file is set and viewer_process.poll() is None.
Active(v) == v.temp_file /\ v.process = "running"

\* The viewer file after writer.write(det) with outcome w.
Written(v, det, w) ==
    [v EXCEPT !.content = CASE w = "ok"       -> <<det>>
                            [] w = "unopened" -> @
                            [] OTHER          -> <<>>,
              !.writes  = @ + 1,
              !.wrote   = w]

\* An update of the viewer that never touches the file.
update_viewer_skipping(v, det, w) == v

\* _update_viewer, lines 2195-2210; the exception of the writer is printed.
update_viewer(v, det, w) ==
    IF ~v.temp_file THEN v
    ELSE IF v.process # "running" THEN v
    ELSE Written(v, det, w)

\* The call self._update_viewer() that ends a handler, made when the handler
\* got that far, on the registry as the handler leaves it.
ViewerFollows(done) ==
    IF done
    THEN \E w \in (IF Active(viewer) THEN WriteOutcomes ELSE {"ok"}), det \in {Detector'} :
            viewer' = update_viewer(viewer, det, w)
    ELSE viewer' = viewer

\* subprocess.Popen of lines 2173-2175: the process reads the file as it is.
Launched(v) == [v EXCEPT !.process = "running", !.launchedOn = v.content]

\* view_in_vtk, lines 2140-2193. script is viewer_script.exists().
view_in_vtk(w, script) ==
    LET v1 == Written([viewer EXCEPT !.temp_file = TRUE], Detector, w)
    IN  IF w # "ok"
        THEN /\ viewer' = v1
             /\ last' = Plain("view", "", "", FALSE, "ExternalLibraryFailure")
        ELSE IF ~script
        THEN /\ viewer' = v1
             /\ last' = Plain("view", "", "", FALSE, "NoViewerScript")
        ELSE /\ viewer' = IF v1.process = "running" THEN v1 ELSE Launched(v1)
             /\ last' = Plain("view", "", "", TRUE, "")

ViewInVtk ==
    /\ steps < MaxSteps
    /\ steps' = steps + 1
    /\ UNCHANGED <<logicalVolumeDict, lvObj, physicalVolumeDict, pvObj, worldVolume,
                   materialDict, matObj, userMaterials, volume_tree,
                   cached_nist_materials, search_var, db_file>>
    /\ \E w \in WriteOutcomes, script \in BOOLEAN : view_in_vtk(w, script)

\* The user closes the viewer window: viewer_process.poll() is no longer None.
ViewerExits ==
    /\ steps < MaxSteps
    /\ viewer.process = "running"
    /\ steps' = steps + 1
    /\ viewer' = [viewer EXCEPT !.process = "exited"]
    /\ last' = Plain("viewerExit", "", "", TRUE, "")
    /\ UNCHANGED <<logicalVolumeDict, lvObj, physicalVolumeDict, pvObj, worldVolume,
                   materialDict, matObj, userMaterials, volume_tree,
                   cached_nist_materials, search_var, db_file>>

\* The outcomes the library call of a resolution can have.
LibOutcomes(material_name) ==
    IF material_name \in DOMAIN materialDict THEN {"ok"}
    ELSE IF StartsWithG4(material_name) THEN {"ok", "partial", "fail"}
    ELSE IF material_name \in DOMAIN userMaterials THEN {"ok", "fail"}
    ELSE {"ok"}

\* apply_selected_material, lines 1735-1771, for the selected row volume_name and
\* the dropdown text new_material.
apply_selected_material(volume_name, new_material, lib) ==
    LET known == volume_name \in DOMAIN logicalVolumeDict
                 /\ lvObj[logicalVolumeDict[volume_name]].material # 0
        r     == ensure_material_in_registry(Registry, new_material, lib)
        again == last.op = "apply" /\ last.ok /\ last.name = new_material
    IN  IF ~known
        THEN /\ last' = Plain("apply", new_material, volume_name, FALSE, "CannotChangeMaterial")
             /\ UNCHANGED <<lvObj, materialDict, matObj, volume_tree>>
        ELSE /\ last' = Outcome("apply", new_material, volume_name, r, again,
                                IF again THEN last.source ELSE "none")
             /\ materialDict' = r.md
             /\ matObj' = r.mo
             /\ IF r.ok
                THEN /\ lvObj' = [lvObj EXCEPT ![logicalVolumeDict[volume_name]].material = r.result]
                     /\ volume_tree' = [i \in DOMAIN volume_tree |->
                                          IF volume_tree[i].name = volume_name
                                          THEN [volume_tree[i] EXCEPT !.mat = new_material]
                                          ELSE volume_tree[i]]
                ELSE UNCHANGED <<lvObj, volume_tree>>

ApplySelectedMaterial ==
    /\ steps < MaxSteps
    /\ steps' = steps + 1
    /\ UNCHANGED <<cached_nist_materials, search_var, db_file>>
    /\ UNCHANGED <<logicalVolumeDict, physicalVolumeDict, pvObj, worldVolume, userMaterials>>
    /\ \E volume_name \in TreeNames, new_material \in MatNames :
         \E lib \in LibOutcomes(new_material) :
            apply_selected_material(volume_name, new_material, lib)
    \* line 1768
    /\ ViewerFollows(last'.ok)

\* refresh_volume_tree, lines 1642-1644.
RefreshVolumeTree ==
    /\ steps < MaxSteps
    /\ volume_tree' = populate_volume_tree(Geometry)
    /\ last' = Plain("refresh", "", "", TRUE, "")
    /\ steps' = steps + 1
    /\ UNCHANGED <<cached_nist_materials, search_var, db_file, viewer>>
    /\ UNCHANGED <<logicalVolumeDict, lvObj, physicalVolumeDict, pvObj, worldVolume,
                   materialDict, matObj, userMaterials>>

\* f"{vol_name}_pv", line 1113
PvNameOf(vol_name) ==
    CASE vol_name = "W" -> "W_pv"
      [] vol_name = "a" -> "a_pv"
      [] vol_name = "B" -> "B_pv"
      [] OTHER          -> "c_pv"

\* d[k] = v on a Python dict
Put(d, k, v) == [x \in DOMAIN d \cup {k} |-> IF x = k THEN v ELSE d[x]]

\* del d[k] for the keys ks
Drop(d, ks) == [x \in DOMAIN d \ ks |-> d[x]]

\* Where an Insert Volume attempt can stop after its material step: on an invalid
\* shape parameter (line 1036), in the solid or volume constructor (1069-1097),
\* on a non-numeric position or rotation (1107-1110), in the placement
\* constructor (1114), or nowhere.
InsertFaults == {"none", "params", "solid", "pos", "pv"}

\* What the library's PhysicalVolume constructor back-fills (lines 1116-1118).
Backfills == SUBSET {"dict", "daughters"}

\* InsertVolumeDialog.insert_volume (lines 953-1142) followed by
\* GDMLEditorApp.insert_volume (lines 2047-2063).
insert_volume(vol_name, material_name, parent, lib, fault, backfill) ==
    LET r      == dialog_material(Registry, material_name, lib)
        lvId   == Len(lvObj) + 1
        pvId   == Len(pvObj) + 1
        pvName == PvNameOf(vol_name)
        mother == logicalVolumeDict[parent]
        lvObj1 == Append(lvObj, [name |-> vol_name, material |-> r.result, daughterVolumes |-> <<>>])
        dict1  == IF "dict" \in backfill THEN Put(physicalVolumeDict, pvName, pvId)
                  ELSE physicalVolumeDict
        list1  == IF "daughters" \in backfill THEN Append(lvObj[mother].daughterVolumes, pvId)
                  ELSE lvObj[mother].daughterVolumes
        stop(err) == Outcome("insert", material_name, vol_name, [r EXCEPT !.ok = FALSE, !.err = err],
                             FALSE, "none")
    IN  IF worldVolume = 0
        \* self.world_lv is None: the dialog's constructor raises at line 728
        THEN /\ last' = Plain("insert", material_name, vol_name, FALSE, "NoDialog")
             /\ UNCHANGED <<logicalVolumeDict, lvObj, physicalVolumeDict, pvObj,
                            materialDict, matObj, volume_tree>>
        ELSE IF vol_name \in DOMAIN logicalVolumeDict
        THEN /\ last' = Plain("insert", material_name, vol_name, FALSE, "DuplicateVolumeName")
             /\ UNCHANGED <<logicalVolumeDict, lvObj, physicalVolumeDict, pvObj,
                            materialDict, matObj, volume_tree>>
        ELSE /\ materialDict' = r.md
             /\ matObj' = r.mo
             /\ IF ~r.ok
                THEN /\ last' = Outcome("insert", material_name, vol_name, r, FALSE, "none")
                     /\ UNCHANGED <<logicalVolumeDict, lvObj, physicalVolumeDict, pvObj, volume_tree>>
                ELSE IF fault \in {"params", "solid"}
                THEN /\ last' = stop(IF fault = "params" THEN "InvalidParameter"
                                     ELSE "ExternalLibraryFailure")
                     /\ UNCHANGED <<logicalVolumeDict, lvObj, physicalVolumeDict, pvObj, volume_tree>>
                ELSE IF fault \in {"pos", "pv"}
                THEN /\ last' = stop(IF fault = "pos" THEN "InvalidPosition"
                                     ELSE "ExternalLibraryFailure")
                     /\ lvObj' = lvObj1
                     /\ logicalVolumeDict' = Put(logicalVolumeDict, vol_name, lvId)
                     /\ UNCHANGED <<physicalVolumeDict, pvObj, volume_tree>>
                ELSE /\ last' = Outcome("insert", material_name, vol_name, r, FALSE, "none")
                     /\ pvObj' = Append(pvObj, [name |-> pvName, motherVolume |-> ObjRef(mother),
                                                logicalVolume |-> ObjRef(lvId)])
                     /\ physicalVolumeDict' =
                            IF pvName \notin DOMAIN dict1 THEN Put(dict1, pvName, pvId) ELSE dict1
                     /\ lvObj' = [lvObj1 EXCEPT ![mother].daughterVolumes =
                                     IF pvId \notin Range(list1) THEN Append(list1, pvId) ELSE list1]
                     /\ logicalVolumeDict' = Put(logicalVolumeDict, vol_name, lvId)
                     /\ \E g \in {Geometry'} : volume_tree' = populate_volume_tree(g)

\* The inputs of an Insert Volume attempt. The fault, the parent and the back-fill
\* are read only by an attempt that gets that far.
InsertVolume ==
    /\ steps < MaxSteps
    /\ steps' = steps + 1
    /\ UNCHANGED <<cached_nist_materials, search_var, db_file>>
    /\ UNCHANGED <<worldVolume, userMaterials>>
    /\ \E vol_name \in VolNames, material_name \in MatNames :
         \E lib \in (IF vol_name \in DOMAIN logicalVolumeDict \/ worldVolume = 0 THEN {"ok"}
                     ELSE LibOutcomes(material_name)) :
           LET far == worldVolume # 0
                      /\ vol_name \notin DOMAIN logicalVolumeDict
                      /\ dialog_material(Registry, material_name, lib).ok
           IN  \E fault \in (IF far THEN InsertFaults ELSE {"none"}) :
                 \E parent \in (IF far /\ fault = "none" THEN DOMAIN logicalVolumeDict
                                ELSE {CHOOSE n \in DOMAIN logicalVolumeDict : TRUE}),
                    backfill \in (IF far /\ fault = "none" THEN Backfills ELSE {{}}) :
                    insert_volume(vol_name, material_name, parent, lib, fault, backfill)
    \* line 2063, reached when the dialog has a result
    /\ ViewerFollows(last'.ok)

\* A rename that does not protect the world volume.
rename_without_world_check(old_name, new_name) ==
    IF new_name = old_name
    THEN /\ last' = Plain("rename", new_name, old_name, TRUE, "")
         /\ UNCHANGED <<logicalVolumeDict, lvObj, volume_tree>>
    ELSE IF new_name \in DOMAIN logicalVolumeDict
    THEN /\ last' = Plain("rename", new_name, old_name, FALSE, "DuplicateVolumeName")
         /\ UNCHANGED <<logicalVolumeDict, lvObj, volume_tree>>
    ELSE IF old_name \notin DOMAIN logicalVolumeDict
    THEN /\ last' = Plain("rename", new_name, old_name, FALSE, "VolumeNotFound")
         /\ UNCHANGED <<logicalVolumeDict, lvObj, volume_tree>>
    ELSE /\ last' = Plain("rename", new_name, old_name, TRUE, "")
         /\ lvObj' = [lvObj EXCEPT ![logicalVolumeDict[old_name]].name = new_name]
         /\ logicalVolumeDict' = Put(Drop(logicalVolumeDict, {old_name}), new_name,
                                     logicalVolumeDict[old_name])
         /\ \E g \in {Geometry'} : volume_tree' = populate_volume_tree(g)

\* A rename that does not look for a volume of the new name.
rename_over_existing(old_name, new_name) ==
    IF new_name = old_name
    THEN /\ last' = Plain("rename", new_name, old_name, TRUE, "")
         /\ UNCHANGED <<logicalVolumeDict, lvObj, volume_tree>>
    ELSE IF old_name = WorldName
    THEN /\ last' = Plain("rename", new_name, old_name, FALSE, "WorldVolume")
         /\ UNCHANGED <<logicalVolumeDict, lvObj, volume_tree>>
    ELSE IF old_name \notin DOMAIN logicalVolumeDict
    THEN /\ last' = Plain("rename", new_name, old_name, FALSE, "VolumeNotFound")
         /\ UNCHANGED <<logicalVolumeDict, lvObj, volume_tree>>
    ELSE /\ last' = Plain("rename", new_name, old_name, TRUE, "")
         /\ lvObj' = [lvObj EXCEPT ![logicalVolumeDict[old_name]].name = new_name]
         /\ logicalVolumeDict' = Put(Drop(logicalVolumeDict, {old_name}), new_name,
                                     logicalVolumeDict[old_name])
         /\ \E g \in {Geometry'} : volume_tree' = populate_volume_tree(g)

\* A rename that renames the displayed row in place instead of rebuilding the tree.
rename_patching_row(old_name, new_name) ==
    IF new_name = old_name
    THEN /\ last' = Plain("rename", new_name, old_name, TRUE, "")
         /\ UNCHANGED <<logicalVolumeDict, lvObj, volume_tree>>
    ELSE IF old_name = WorldName
    THEN /\ last' = Plain("rename", new_name, old_name, FALSE, "WorldVolume")
         /\ UNCHANGED <<logicalVolumeDict, lvObj, volume_tree>>
    ELSE IF new_name \in DOMAIN logicalVolumeDict
    THEN /\ last' = Plain("rename", new_name, old_name, FALSE, "DuplicateVolumeName")
         /\ UNCHANGED <<logicalVolumeDict, lvObj, volume_tree>>
    ELSE IF old_name \notin DOMAIN logicalVolumeDict
    THEN /\ last' = Plain("rename", new_name, old_name, FALSE, "VolumeNotFound")
         /\ UNCHANGED <<logicalVolumeDict, lvObj, volume_tree>>
    ELSE /\ last' = Plain("rename", new_name, old_name, TRUE, "")
         /\ lvObj' = [lvObj EXCEPT ![logicalVolumeDict[old_name]].name = new_name]
         /\ logicalVolumeDict' = Put(Drop(logicalVolumeDict, {old_name}), new_name,
                                     logicalVolumeDict[old_name])
         /\ volume_tree' = [i \in DOMAIN volume_tree |->
                              IF volume_tree[i].name = old_name
                              THEN [volume_tree[i] EXCEPT !.name = new_name]
                              ELSE volume_tree[i]]

\* rename_selected_volume, lines 1773-1827, for the selected row old_name and the
\* name field new_name.
rename_selected_volume(old_name, new_name) ==
    IF new_name = old_name
    THEN /\ last' = Plain("rename", new_name, old_name, TRUE, "")
         /\ UNCHANGED <<logicalVolumeDict, lvObj, volume_tree>>
    ELSE IF old_name = WorldName
    THEN /\ last' = Plain("rename", new_name, old_name, FALSE, "WorldVolume")
         /\ UNCHANGED <<logicalVolumeDict, lvObj, volume_tree>>
    ELSE IF new_name \in DOMAIN logicalVolumeDict
    THEN /\ last' = Plain("rename", new_name, old_name, FALSE, "DuplicateVolumeName")
         /\ UNCHANGED <<logicalVolumeDict, lvObj, volume_tree>>
    ELSE IF old_name \notin DOMAIN logicalVolumeDict
    THEN /\ last' = Plain("rename", new_name, old_name, FALSE, "VolumeNotFound")
         /\ UNCHANGED <<logicalVolumeDict, lvObj, volume_tree>>
    ELSE /\ last' = Plain("rename", new_name, old_name, TRUE, "")
         /\ lvObj' = [lvObj EXCEPT ![logicalVolumeDict[old_name]].name = new_name]
         /\ logicalVolumeDict' = Put(Drop(logicalVolumeDict, {old_name}), new_name,
                                     logicalVolumeDict[old_name])
         /\ \E g \in {Geometry'} : volume_tree' = populate_volume_tree(g)

RenameSelectedVolume ==
    /\ steps < MaxSteps
    /\ steps' = steps + 1
    /\ UNCHANGED <<cached_nist_materials, search_var, db_file>>
    /\ UNCHANGED <<physicalVolumeDict, pvObj, worldVolume, materialDict, matObj, userMaterials>>
    /\ \E old_name \in TreeNames, new_name \in VolNames :
         rename_selected_volume(old_name, new_name)
    \* line 1827; the return of line 1791 does not get there
    /\ ViewerFollows(last'.ok /\ last'.name # last'.volume)

\* The placements in the daughter lists of the registry's volumes.
DaughterPlacements ==
    UNION {Range(lvObj[logicalVolumeDict[m]].daughterVolumes) : m \in DOMAIN logicalVolumeDict}

\* pv.logicalVolume.name == volume_name (lines 2095 and 2112); it raises
\* AttributeError when pv.logicalVolume is a bare name.
PlacesVolume(p, volume_name) ==
    pvObj[p].logicalVolume.k = "obj" /\ lvObj[pvObj[p].logicalVolume.id].name = volume_name

RaisesOnChild(p) == pvObj[p].logicalVolume.k = "str"

\* daughterVolumes.remove(pv) for every pv of gone (lines 2099-2100)
Without(s, gone) == SelectSeq(s, LAMBDA p : p \notin gone)

\* Where the loops of lines 2092-2117 found placements of the volume: "none",
\* "both" when every one was in a child list and in the placement map, "one"
\* when some placement was in one of the two only.
FoundIn(toRemove, dict2, volume_name) ==
    IF \/ \E p \in toRemove : pvObj[p].name \notin DOMAIN physicalVolumeDict
       \/ \E n \in DOMAIN dict2 : PlacesVolume(dict2[n], volume_name)
    THEN "one"
    ELSE IF toRemove = {} THEN "none" ELSE "both"

\* A delete that looks for the placements of the volume in the child lists only.
delete_from_lists_only(volume_name) ==
    LET toRemove   == {p \in DaughterPlacements : PlacesVolume(p, volume_name)}
        inDict(m)  == m \in Range(logicalVolumeDict)
        lvObj2     == [m \in DOMAIN lvObj |->
                          IF inDict(m)
                          THEN [lvObj[m] EXCEPT !.daughterVolumes =
                                    Without(@, toRemove)]
                          ELSE lvObj[m]]
        dict2      == Drop(physicalVolumeDict, {pvObj[p].name : p \in toRemove})
    IN  IF volume_name = WorldName
        THEN /\ last' = Plain("delete", "", volume_name, FALSE, "WorldVolume")
             /\ UNCHANGED <<logicalVolumeDict, lvObj, physicalVolumeDict, volume_tree>>
        ELSE IF \E p \in DaughterPlacements : RaisesOnChild(p)
        THEN /\ last' = Plain("delete", "", volume_name, FALSE, "ExternalLibraryFailure")
             /\ UNCHANGED <<logicalVolumeDict, lvObj, physicalVolumeDict, volume_tree>>
        ELSE /\ last' = [Plain("delete", "", volume_name, TRUE, "") EXCEPT
                             !.source = FoundIn(toRemove, dict2, volume_name)]
             /\ lvObj' = lvObj2
             /\ physicalVolumeDict' = dict2
             /\ logicalVolumeDict' = Drop(logicalVolumeDict, {volume_name})
             /\ \E g \in {Geometry'} : volume_tree' = populate_volume_tree(g)

\* delete_volume, lines 2065-2138, for the selected row volume_name.
delete_volume(volume_name) ==
    LET toRemove   == {p \in DaughterPlacements : PlacesVolume(p, volume_name)}
        inDict(m)  == m \in Range(logicalVolumeDict)
        lvObj2     == [m \in DOMAIN lvObj |->
                          IF inDict(m)
                          THEN [lvObj[m] EXCEPT !.daughterVolumes =
                                    Without(@, toRemove)]
                          ELSE lvObj[m]]
        dict2      == Drop(physicalVolumeDict, {pvObj[p].name : p \in toRemove})
        dict3      == Drop(dict2, {n \in DOMAIN dict2 : PlacesVolume(dict2[n], volume_name)})
    IN  IF volume_name = WorldName
        THEN /\ last' = Plain("delete", "", volume_name, FALSE, "WorldVolume")
             /\ UNCHANGED <<logicalVolumeDict, lvObj, physicalVolumeDict, volume_tree>>
        ELSE IF \E p \in DaughterPlacements : RaisesOnChild(p)
        THEN /\ last' = Plain("delete", "", volume_name, FALSE, "ExternalLibraryFailure")
             /\ UNCHANGED <<logicalVolumeDict, lvObj, physicalVolumeDict, volume_tree>>
        ELSE IF volume_name \in DOMAIN logicalVolumeDict
                /\ \E n \in DOMAIN dict2 : RaisesOnChild(dict2[n])
        THEN /\ last' = Plain("delete", "", volume_name, FALSE, "ExternalLibraryFailure")
             /\ lvObj' = lvObj2
             /\ physicalVolumeDict' = dict2
             /\ UNCHANGED <<logicalVolumeDict, volume_tree>>
        ELSE /\ last' = [Plain("delete", "", volume_name, TRUE, "") EXCEPT
                             !.source = FoundIn(toRemove, dict2, volume_name)]
             /\ lvObj' = lvObj2
             /\ physicalVolumeDict' =
                    IF volume_name \in DOMAIN logicalVolumeDict THEN dict3 ELSE dict2
             /\ logicalVolumeDict' = Drop(logicalVolumeDict, {volume_name})
             /\ \E g \in {Geometry'} : volume_tree' = populate_volume_tree(g)

DeleteVolume ==
    /\ steps < MaxSteps
    /\ steps' = steps + 1
    /\ UNCHANGED <<cached_nist_materials, search_var, db_file>>
    /\ UNCHANGED <<pvObj, worldVolume, materialDict, matObj, userMaterials>>
    /\ \E volume_name \in TreeNames : delete_volume(volume_name)
    \* line 2135
    /\ ViewerFollows(last'.ok)

\* The names a user can give a catalog record.
UserNames == {"Mix", "Steel", "G4_AIR"}

\* UserMaterialDatabase.add_material, line 79: the catalog with the record.
add_material(name, material_data) == Put(userMaterials, name, material_data)

\* MaterialDefinitionDialog.save_material, lines 402-499, for the form contents
\* (name, form); add_material saves the catalog at line 80.
save_material(name, form) ==
    IF form.density <= 0
    THEN /\ last' = Plain("save", name, "", FALSE, "InvalidMaterialRecord")
         /\ UNCHANGED <<userMaterials, db_file>>
    ELSE IF form.type = "compound" /\ form.formula = ""
    THEN /\ last' = Plain("save", name, "", FALSE, "InvalidMaterialRecord")
         /\ UNCHANGED <<userMaterials, db_file>>
    ELSE IF form.type # "compound"
            /\ (\/ form.composition = <<>>
                \/ \E i \in DOMAIN form.composition :
                      form.composition[i].fraction <= 0 \/ form.composition[i].fraction > FractionOne
                \/ FractionsOutOfTolerance(form.composition))
    THEN /\ last' = Plain("save", name, "", FALSE, "InvalidMaterialRecord")
         /\ UNCHANGED <<userMaterials, db_file>>
    ELSE LET material_data == [form EXCEPT !.state = IF @ = <<>> THEN <<"solid">> ELSE @]
         IN  /\ userMaterials' = add_material(name, material_data)
             /\ db_file' = save(db_file, add_material(name, material_data))
             \* lines 493-499: the exception of add_material is shown as an error
             /\ last' = IF SaveRaises(db_file)
                        THEN Plain("save", name, "", FALSE, "PersistenceFailure")
                        ELSE Plain("save", name, "", TRUE, "")

SaveMaterial ==
    /\ steps < MaxSteps
    /\ steps' = steps + 1
    /\ UNCHANGED <<cached_nist_materials, search_var, viewer>>
    /\ UNCHANGED <<logicalVolumeDict, lvObj, physicalVolumeDict, pvObj, worldVolume,
                   materialDict, matObj, volume_tree>>
    /\ \E name \in UserNames, form \in Records : save_material(name, form)

\* UserMaterialDatabase.remove_material, lines 82-85: the catalog without name;
\* it saves the catalog at line 86.
remove_material(name) == Drop(userMaterials, {name})

\* MaterialManagementDialog.delete_material, lines 637-656, for the selected
\* catalog name, once the user has confirmed.
delete_material(mat_name) ==
    /\ userMaterials' = remove_material(mat_name)
    /\ db_file' = save(db_file, remove_material(mat_name))
    /\ IF SaveRaises(db_file)
       \* the exception of line 650 leaves the handler
       THEN /\ UNCHANGED materialDict
            /\ last' = Plain("deleteMaterial", mat_name, "", FALSE, "PersistenceFailure")
       ELSE /\ materialDict' = IF mat_name \in DOMAIN materialDict
                               THEN Drop(materialDict, {mat_name}) ELSE materialDict
            /\ last' = Plain("deleteMaterial", mat_name, "", TRUE, "")

DeleteMaterial ==
    /\ steps < MaxSteps
    /\ steps' = steps + 1
    /\ UNCHANGED <<cached_nist_materials, search_var, viewer>>
    /\ UNCHANGED <<logicalVolumeDict, lvObj, physicalVolumeDict, pvObj, worldVolume,
                   matObj, volume_tree>>
    /\ \E mat_name \in DOMAIN userMaterials : delete_material(mat_name)

\* ------------------------------------------------------------------ search

\* The texts typed into the search field.
SearchTexts == {"", " ", "a", "B"}

\* str.strip() on the search texts.
Strip(t) == IF t = " " THEN "" ELSE t

\* (self.search_var.get() or "").strip().lower(), line 1651.
SearchText(t) == Lower(Strip(t))

\* `search_text not in name.lower()`, line 1662: the volume names of the model
\* and the search texts have one character, so containing is being equal.
NameContains(search_text, name) == search_text = Lower(name)

\* Position of a volume name in Python's string order, for sorted(dict.items()).
NameRank ==
    [n \in VolNames |->
        CASE n = "B" -> 1
          [] n = "W" -> 2
          [] n = "a" -> 3
          [] OTHER   -> 4]

\* The flat list of lines 1658-1670.
FlatRows(g, search_text) ==
    LET names == SortedByRank(DOMAIN g.logicalVolumeDict, NameRank)
        shown == SelectSeq(names, LAMBDA n : NameContains(search_text, n))
    IN  [i \in DOMAIN shown |-> Row(g, shown[i], NoName)]

\* filter_volumes, lines 1646-1670, run by the write trace of the search field
\* (line 1331) when the text becomes `text`. self.world_lv is None exactly when
\* the registry has no world volume.
filter_volumes(text) ==
    /\ search_var' = text
    /\ last' = Plain("filter", text, "", TRUE, "")
    /\ IF worldVolume = 0
       THEN UNCHANGED volume_tree
       ELSE IF SearchText(text) = ""
       THEN volume_tree' = populate_volume_tree(Geometry)
       ELSE volume_tree' = FlatRows(Geometry, SearchText(text))

FilterVolumes ==
    /\ steps < MaxSteps
    /\ steps' = steps + 1
    /\ UNCHANGED <<logicalVolumeDict, lvObj, physicalVolumeDict, pvObj, worldVolume,
                   materialDict, matObj, userMaterials, cached_nist_materials,
                   db_file, viewer>>
    /\ \E text \in SearchTexts : filter_volumes(text)

\* What a listing handler leaves behind.
Listed(op, l) == [Plain(op, "", "", TRUE, "") EXCEPT !.fetch = l.fetch, !.listing = l.listing]

\* A dropdown refresh that materializes every reference material it lists.
update_dropdown_materializing(lib) ==
    LET l   == get_all_available_materials(materialDict, userMaterials, cached_nist_materials, lib)
        reg == NistMaterial(Registry, "G4_AIR", "ok")
    IN  /\ cached_nist_materials' = l.cache
        /\ last' = Listed("list", l)
        /\ materialDict' = IF "G4_AIR" \in l.cache[1] /\ "G4_AIR" \notin DOMAIN materialDict
                           THEN reg.md ELSE materialDict
        /\ matObj' = IF "G4_AIR" \in l.cache[1] /\ "G4_AIR" \notin DOMAIN materialDict
                     THEN reg.mo ELSE matObj
        /\ UNCHANGED <<logicalVolumeDict, lvObj, physicalVolumeDict, pvObj, userMaterials>>

\* _update_volume_material_dropdown, lines 1702-1707, as on_volume_select calls it
\* (lines 1912 and 1920).
update_volume_material_dropdown(lib) ==
    LET l == get_all_available_materials(materialDict, userMaterials, cached_nist_materials, lib)
    IN  /\ cached_nist_materials' = l.cache
        /\ last' = Listed("list", l)
        /\ UNCHANGED <<logicalVolumeDict, lvObj, physicalVolumeDict, pvObj,
                       materialDict, matObj, userMaterials>>

UpdateVolumeMaterialDropdown ==
    /\ steps < MaxSteps
    /\ steps' = steps + 1
    /\ UNCHANGED <<worldVolume, volume_tree, search_var, db_file, viewer>>
    /\ \E lib \in (IF cached_nist_materials = <<>> THEN {"ok", "fail"} ELSE {"ok"}) :
         update_volume_material_dropdown(lib)

\* The material list of a newly opened Insert Volume dialog, line 716.
OpenInsertVolumeDialog ==
    /\ steps < MaxSteps
    /\ steps' = steps + 1
    /\ \E lib \in {"ok", "fail"} :
         last' = Listed("dialogList",
                        dialog_get_all_available_materials(materialDict, userMaterials, lib))
    /\ UNCHANGED <<logicalVolumeDict, lvObj, physicalVolumeDict, pvObj, worldVolume,
                   materialDict, matObj, userMaterials, volume_tree,
                   cached_nist_materials, search_var, db_file, viewer>>

\* ------------------------------------------------------------------ specifications

Steel == Material("Steel", "loaded", 7800, 0, "solid")

EmptyDict == [x \in {} |-> 0]

Start == Plain("load", "", "", TRUE, "")

\* The registry of a loaded file in which W holds a and a holds B, the placements
\* being in both bookkeeping sources; the catalog file holds any of the records.
Catalogs ==
    {EmptyDict} \cup {Put(EmptyDict, "Mix", r) : r \in Records}
                \cup {Put(Put(EmptyDict, "Mix", r), n, WaterCmp) :
                         r \in {WaterMix, ShortMix}, n \in {"Steel", "G4_AIR"}}

Init ==
    /\ lvObj = << [name |-> "W", material |-> 1, daughterVolumes |-> <<1>>],
                  [name |-> "a", material |-> 1, daughterVolumes |-> <<2>>],
                  [name |-> "B", material |-> 0, daughterVolumes |-> <<>>] >>
    /\ logicalVolumeDict = Put(Put(Put(EmptyDict, "W", 1), "a", 2), "B", 3)
    /\ pvObj = << [name |-> "p1", motherVolume |-> ObjRef(1), logicalVolume |-> ObjRef(2)],
                  [name |-> "p2", motherVolume |-> ObjRef(2), logicalVolume |-> ObjRef(3)] >>
    /\ physicalVolumeDict = Put(Put(EmptyDict, "p1", 1), "p2", 2)
    /\ worldVolume = 1
    /\ matObj = <<Steel>>
    /\ materialDict = Put(EmptyDict, "Steel", 1)
    /\ userMaterials \in Catalogs
    /\ volume_tree = populate_volume_tree(Geometry)
    /\ cached_nist_materials = <<NistList>>
    /\ search_var = ""
    /\ db_file = FileOf(userMaterials, "none")
    /\ viewer = NoViewer
    /\ last = Start
    /\ steps = 0

Next ==
    \/ ApplySelectedMaterial
    \/ InsertVolume
    \/ RenameSelectedVolume
    \/ DeleteVolume
    \/ SaveMaterial
    \/ DeleteMaterial
    \/ RefreshVolumeTree

Spec == Init /\ [][Next]_vars

\* The registries of the hierarchy specification: the volumes W, a and B, and for
\* each candidate placement one way of book-keeping it. "both": one placement
\* object in the placement map and in its mother's daughter list; "dict" and
\* "daug": in one of them only; "dictStr": in the placement map only, mother and
\* child given as bare names; "daugStr": in the daughter list only, the child
\* given as a bare name; "bothStr": in both, the child given as a bare name.
CandidatePlacements == << <<1, 2>>, <<1, 3>>, <<2, 3>>, <<3, 2>> >>

InitialName(i) == CASE i = 1 -> "W" [] i = 2 -> "a" [] OTHER -> "B"

InitialPvName(i) == CASE i = 1 -> "p1" [] i = 2 -> "p2" [] i = 3 -> "p3" [] OTHER -> "p4"

AllModes == {"none", "both", "dict", "daug", "dictStr", "daugStr", "bothStr"}

ModesOf(i) ==
    CASE i = 2  -> {"none", "both", "dictStr"}
      [] i = 4  -> {"none", "both"}
      [] OTHER  -> AllModes

InDict(mode) == mode \in {"both", "dict", "dictStr", "bothStr"}
InDaughters(mode) == mode \in {"both", "daug", "daugStr", "bothStr"}

InitialPv(i, mode) ==
    [name          |-> InitialPvName(i),
     motherVolume  |-> IF mode = "dictStr" THEN StrRef(InitialName(CandidatePlacements[i][1]))
                       ELSE ObjRef(CandidatePlacements[i][1]),
     logicalVolume |-> IF mode \in {"dictStr", "daugStr", "bothStr"}
                       THEN StrRef(InitialName(CandidatePlacements[i][2]))
                       ELSE ObjRef(CandidatePlacements[i][2])]

InitialDaughters(m, modes) ==
    SelectSeq(<<1, 2, 3, 4>>,
              LAMBDA i : CandidatePlacements[i][1] = m /\ InDaughters(modes[i]))

InitTree ==
    /\ \E modes \in [DOMAIN CandidatePlacements -> AllModes] :
         /\ \A i \in DOMAIN CandidatePlacements : modes[i] \in ModesOf(i)
         /\ pvObj = [i \in DOMAIN CandidatePlacements |-> InitialPv(i, modes[i])]
         /\ physicalVolumeDict =
                [n \in {InitialPvName(i) : i \in {j \in DOMAIN CandidatePlacements : InDict(modes[j])}} |->
                    CHOOSE i \in DOMAIN CandidatePlacements : InitialPvName(i) = n]
         /\ lvObj = [m \in 1..3 |->
                        [name |-> InitialName(m), material |-> IF m = 3 THEN 0 ELSE 1,
                         daughterVolumes |-> InitialDaughters(m, modes)]]
    /\ logicalVolumeDict = Put(Put(Put(EmptyDict, "W", 1), "a", 2), "B", 3)
    /\ worldVolume = 1
    /\ matObj = <<Steel>>
    /\ materialDict = Put(EmptyDict, "Steel", 1)
    /\ userMaterials = EmptyDict
    /\ volume_tree = populate_volume_tree(Geometry)
    /\ cached_nist_materials = <<NistList>>
    /\ search_var = ""
    /\ db_file = FileOf(userMaterials, "none")
    /\ viewer = NoViewer
    /\ last = Start
    /\ steps = 0

TreeRefresh == steps < MaxTreeSteps /\ RefreshVolumeTree

TreeRename == steps < MaxTreeSteps /\ RenameSelectedVolume

TreeDelete == steps < MaxTreeSteps /\ DeleteVolume

NextTree ==
    \/ TreeRefresh
    \/ TreeRename
    \/ TreeDelete

SpecTree == InitTree /\ [][NextTree]_vars

\* The material-list specification: a loaded file whose materials are Steel, or
\* Steel and air; _load_gdml_file (lines 1551-1552) has populated the tree and
\* then the dropdown, with the cache of line 1404 still None and the fetch
\* succeeding or failing.
Air == Material("air", "loaded", 1, 0, "gas")

InitList ==
    /\ lvObj = << [name |-> "W", material |-> 1, daughterVolumes |-> <<1>>],
                  [name |-> "a", material |-> 1, daughterVolumes |-> <<2>>],
                  [name |-> "B", material |-> 0, daughterVolumes |-> <<>>] >>
    /\ logicalVolumeDict = Put(Put(Put(EmptyDict, "W", 1), "a", 2), "B", 3)
    /\ pvObj = << [name |-> "p1", motherVolume |-> ObjRef(1), logicalVolume |-> ObjRef(2)],
                  [name |-> "p2", motherVolume |-> ObjRef(2), logicalVolume |-> ObjRef(3)] >>
    /\ physicalVolumeDict = Put(Put(EmptyDict, "p1", 1), "p2", 2)
    /\ worldVolume = 1
    /\ \E withAir \in BOOLEAN :
         /\ matObj = IF withAir THEN <<Steel, Air>> ELSE <<Steel>>
         /\ materialDict = IF withAir THEN Put(Put(EmptyDict, "Steel", 1), "air", 2)
                           ELSE Put(EmptyDict, "Steel", 1)
    /\ userMaterials \in Catalogs
    /\ volume_tree = populate_volume_tree(Geometry)
    /\ search_var = ""
    /\ \E fault \in FileFaults : db_file = FileOf(userMaterials, fault)
    /\ viewer = NoViewer
    /\ \E lib \in {"ok", "fail"} :
         LET l == get_all_available_materials(materialDict, userMaterials, <<>>, lib)
         IN  /\ cached_nist_materials = l.cache
             /\ last = Listed("load", l)
    /\ steps = 0

ListDropdown == steps < MaxListSteps /\ UpdateVolumeMaterialDropdown

ListDialog == steps < MaxListSteps /\ OpenInsertVolumeDialog

ListApply == steps < MaxListSteps /\ ApplySelectedMaterial

ListSave == steps < MaxListSteps /\ SaveMaterial

ListDeleteMaterial == steps < MaxListSteps /\ DeleteMaterial

NextList ==
    \/ ListDropdown
    \/ ListDialog
    \/ ListApply
    \/ ListSave
    \/ ListDeleteMaterial

SpecList == InitList /\ [][NextList]_vars

\* The display specification: the loaded file of Init, or the same file without a
\* world volume, and the handlers that write the Treeview.
InitView ==
    /\ lvObj = << [name |-> "W", material |-> 1, daughterVolumes |-> <<1>>],
                  [name |-> "a", material |-> 1, daughterVolumes |-> <<2>>],
                  [name |-> "B", material |-> 0, daughterVolumes |-> <<>>] >>
    /\ logicalVolumeDict = Put(Put(Put(EmptyDict, "W", 1), "a", 2), "B", 3)
    /\ pvObj = << [name |-> "p1", motherVolume |-> ObjRef(1), logicalVolume |-> ObjRef(2)],
                  [name |-> "p2", motherVolume |-> ObjRef(2), logicalVolume |-> ObjRef(3)] >>
    /\ physicalVolumeDict = Put(Put(EmptyDict, "p1", 1), "p2", 2)
    /\ worldVolume \in {0, 1}
    /\ matObj = <<Steel>>
    /\ materialDict = Put(EmptyDict, "Steel", 1)
    /\ userMaterials = EmptyDict
    /\ volume_tree = populate_volume_tree(Geometry)
    /\ cached_nist_materials = <<NistList>>
    /\ search_var = ""
    /\ db_file = FileOf(userMaterials, "none")
    /\ viewer = NoViewer
    /\ last = Start
    /\ steps = 0

ViewFilter == steps < MaxViewSteps /\ FilterVolumes

ViewRefresh == steps < MaxViewSteps /\ RefreshVolumeTree

ViewInsert == steps < MaxViewSteps /\ InsertVolume

ViewRename == steps < MaxViewSteps /\ RenameSelectedVolume

ViewDelete == steps < MaxViewSteps /\ DeleteVolume

NextView ==
    \/ ViewFilter
    \/ ViewRefresh
    \/ ViewInsert
    \/ ViewRename
    \/ ViewDelete

SpecView == InitView /\ [][NextView]_vars

\* The files File > Open can load, as the registry gdml.Reader builds for each:
\* "A" is the file of Init, "B" holds the world and one volume B in it, "C" the
\* world and one volume a in it whose placement has the name c_pv (a file this
\* editor saved after the volume was inserted as c and then renamed).
GdmlFiles == {"A", "B", "C"}

GdmlFile(f) ==
    IF f = "A"
    THEN [lvObj |-> << [name |-> "W", material |-> 1, daughterVolumes |-> <<1>>],
                       [name |-> "a", material |-> 1, daughterVolumes |-> <<2>>],
                       [name |-> "B", material |-> 0, daughterVolumes |-> <<>>] >>,
          logicalVolumeDict |-> Put(Put(Put(EmptyDict, "W", 1), "a", 2), "B", 3),
          pvObj |-> << [name |-> "p1", motherVolume |-> ObjRef(1), logicalVolume |-> ObjRef(2)],
                       [name |-> "p2", motherVolume |-> ObjRef(2), logicalVolume |-> ObjRef(3)] >>,
          physicalVolumeDict |-> Put(Put(EmptyDict, "p1", 1), "p2", 2),
          worldVolume |-> 1, matObj |-> <<Steel>>, materialDict |-> Put(EmptyDict, "Steel", 1)]
    ELSE IF f = "C"
    THEN [lvObj |-> << [name |-> "W", material |-> 1, daughterVolumes |-> <<1>>],
                       [name |-> "a", material |-> 1, daughterVolumes |-> <<>>] >>,
          logicalVolumeDict |-> Put(Put(EmptyDict, "W", 1), "a", 2),
          pvObj |-> << [name |-> "c_pv", motherVolume |-> ObjRef(1), logicalVolume |-> ObjRef(2)] >>,
          physicalVolumeDict |-> Put(EmptyDict, "c_pv", 1),
          worldVolume |-> 1, matObj |-> <<Steel>>, materialDict |-> Put(EmptyDict, "Steel", 1)]
    ELSE [lvObj |-> << [name |-> "W", material |-> 1, daughterVolumes |-> <<1>>],
                       [name |-> "B", material |-> 1, daughterVolumes |-> <<>>] >>,
          logicalVolumeDict |-> Put(Put(EmptyDict, "W", 1), "B", 2),
          pvObj |-> << [name |-> "p1", motherVolume |-> ObjRef(1), logicalVolume |-> ObjRef(2)] >>,
          physicalVolumeDict |-> Put(EmptyDict, "p1", 1),
          worldVolume |-> 1, matObj |-> <<Steel>>, materialDict |-> Put(EmptyDict, "Steel", 1)]

\* _load_gdml_file, lines 1535-1569, for the file f; lib is what gdml.Reader
\* does, listLib what getNistMaterialList does if the dropdown fetches.
load_gdml_file(f, lib, listLib) ==
    IF lib # "ok"
    THEN /\ last' = Plain("load", "", "", FALSE, "ExternalLibraryFailure")
         /\ UNCHANGED <<logicalVolumeDict, lvObj, physicalVolumeDict, pvObj, worldVolume,
                        materialDict, matObj, volume_tree, cached_nist_materials>>
    ELSE LET l == get_all_available_materials(GdmlFile(f).materialDict, userMaterials,
                                              cached_nist_materials, listLib)
         IN  /\ lvObj' = GdmlFile(f).lvObj
             /\ logicalVolumeDict' = GdmlFile(f).logicalVolumeDict
             /\ pvObj' = GdmlFile(f).pvObj
             /\ physicalVolumeDict' = GdmlFile(f).physicalVolumeDict
             /\ worldVolume' = GdmlFile(f).worldVolume
             /\ matObj' = GdmlFile(f).matObj
             /\ materialDict' = GdmlFile(f).materialDict
             /\ cached_nist_materials' = l.cache
             /\ last' = Listed("load", l)
             /\ \E g \in {Geometry'} : volume_tree' = populate_volume_tree(g)

LoadGdmlFile ==
    /\ steps < MaxSteps
    /\ steps' = steps + 1
    /\ UNCHANGED <<userMaterials, search_var, db_file>>
    /\ \E f \in GdmlFiles, lib \in {"ok", "fail"} :
         \E listLib \in (IF lib = "ok" /\ cached_nist_materials = <<>> THEN {"ok", "fail"}
                         ELSE {"ok"}) :
            load_gdml_file(f, lib, listLib)
    \* line 1565
    /\ ViewerFollows(last'.ok)

\* The viewer specification: the loaded file of Init, no viewer yet, and the
\* handlers that change the registry or the viewer.
InitViewer ==
    /\ lvObj = GdmlFile("A").lvObj
    /\ logicalVolumeDict = GdmlFile("A").logicalVolumeDict
    /\ pvObj = GdmlFile("A").pvObj
    /\ physicalVolumeDict = GdmlFile("A").physicalVolumeDict
    /\ worldVolume = GdmlFile("A").worldVolume
    /\ matObj = GdmlFile("A").matObj
    /\ materialDict = GdmlFile("A").materialDict
    /\ userMaterials = EmptyDict
    /\ volume_tree = populate_volume_tree(Geometry)
    /\ cached_nist_materials = <<NistList>>
    /\ search_var = ""
    /\ db_file = FileOf(userMaterials, "none")
    /\ viewer = NoViewer
    /\ last = Start
    /\ steps = 0

ViewerLaunch == steps < MaxViewerSteps /\ ViewInVtk

ViewerQuit == steps < MaxViewerSteps /\ ViewerExits

ViewerLoad == steps < MaxViewerSteps /\ LoadGdmlFile

ViewerApply == steps < MaxViewerSteps /\ ApplySelectedMaterial

ViewerInsert == steps < MaxViewerSteps /\ InsertVolume

ViewerRename == steps < MaxViewerSteps /\ RenameSelectedVolume

ViewerDelete == steps < MaxViewerSteps /\ DeleteVolume

NextViewer ==
    \/ ViewerLaunch
    \/ ViewerQuit
    \/ ViewerLoad
    \/ ViewerApply
    \/ ViewerInsert
    \/ ViewerRename
    \/ ViewerDelete

SpecViewer == InitViewer /\ [][NextViewer]_vars

\* The placement specification: any of the files, loaded, and the handlers that
\* change volumes and placements.
InitPlace ==
    /\ \E f \in GdmlFiles :
         /\ lvObj = GdmlFile(f).lvObj
         /\ logicalVolumeDict = GdmlFile(f).logicalVolumeDict
         /\ pvObj = GdmlFile(f).pvObj
         /\ physicalVolumeDict = GdmlFile(f).physicalVolumeDict
         /\ worldVolume = GdmlFile(f).worldVolume
         /\ matObj = GdmlFile(f).matObj
         /\ materialDict = GdmlFile(f).materialDict
    /\ userMaterials = EmptyDict
    /\ volume_tree = populate_volume_tree(Geometry)
    /\ cached_nist_materials = <<NistList>>
    /\ search_var = ""
    /\ db_file = FileOf(userMaterials, "none")
    /\ viewer = NoViewer
    /\ last = Start
    /\ steps = 0

PlaceInsert == steps < MaxPlaceSteps /\ InsertVolume

PlaceRename == steps < MaxPlaceSteps /\ RenameSelectedVolume

PlaceDelete == steps < MaxPlaceSteps /\ DeleteVolume

NextPlace ==
    \/ PlaceInsert
    \/ PlaceRename
    \/ PlaceDelete

SpecPlace == InitPlace /\ [][NextPlace]_vars

\* ------------------------------------------------------------------ hierarchy properties

\* The (mother, child) names the daughter lists describe when a child link is
\* read in either of its two forms, as the placement map's links are.
ListedChildren(g) ==
    {e \in UNION {{<<m, NameOfRef(g, g.pvObj[pv].logicalVolume)>> :
                     pv \in Range(g.lvObj[g.logicalVolumeDict[m]].daughterVolumes)} :
                  m \in DOMAIN g.logicalVolumeDict} :
        e[2] # NoName}

EmittedNames(rows) == {rows[i].name : i \in DOMAIN rows}

\* C1: the reconciler's child set of a volume is the union of the children the
\* placement map records for it and the children in its own child list, so a
\* child of an emitted parent that is present in either source alone is emitted
\* (under that parent, or under the parent it was first met at).
C1_ChildInEitherSourceIsEmitted ==
    LET rows == populate_volume_tree(Geometry)
    IN  \A e \in PlacementEdges(Geometry) \cup ListedChildren(Geometry) :
            e[1] \in EmittedNames(rows) =>
                \E i \in DOMAIN rows :
                    /\ rows[i].name = e[2]
                    /\ <<rows[i].parent, e[2]>> \in PlacementEdges(Geometry) \cup ListedChildren(Geometry)

\* C2: the walk terminates and emits every volume name at most once: the number
\* of calls is bounded by the merged edges, the rows are exactly the names
\* reachable from the world, no name has two rows, and every row other than the
\* world's hangs under a row emitted before it that is one of its merged parents.
C2_EachNameEmittedOnce ==
    LET edges == children_by_mother(Geometry)
        w     == TreeWalk(Geometry, edges)
        rows  == w.items
    IN  /\ w.calls <= 1 + Cardinality(edges)
        /\ EmittedNames(rows) = w.visited
        /\ \A i, j \in DOMAIN rows : rows[i].name = rows[j].name => i = j
        /\ \A i \in DOMAIN rows :
              IF i = 1
              THEN rows[i].name = WorldName /\ rows[i].parent = NoName
              ELSE /\ <<rows[i].parent, rows[i].name>> \in edges
                   /\ \E j \in 1..(i - 1) : rows[j].name = rows[i].parent
        /\ \A e \in edges : e[1] \in w.visited => e[2] \in w.visited
        /\ volume_tree = rows \/ last.op # "refresh"

\* C2 witness: the tree was just refreshed over a merged map in which a and B
\* contain each other and B also hangs under the world, and all three are shown.
C2_Witness ==
    /\ last.op = "refresh"
    /\ {<<"W", "a">>, <<"W", "B">>, <<"a", "B">>, <<"B", "a">>} \subseteq children_by_mother(Geometry)
    /\ EmittedNames(volume_tree) = {"W", "a", "B"}

\* C3: when the placement map and the child lists describe the same edges, the
\* tree built from their union, the tree built from the placement map alone and
\* the tree built from the child lists alone are the same tree.
C3_SameTreeFromEitherSource ==
    PlacementEdges(Geometry) = ListedChildren(Geometry) =>
        /\ TreeWalk(Geometry, PlacementEdges(Geometry)).items = populate_volume_tree(Geometry)
        /\ TreeWalk(Geometry, DaughterEdges(Geometry)).items = populate_volume_tree(Geometry)

\* ------------------------------------------------------------------ material properties

\* The handler that has just run resolved last'.name: Apply got past its
\* selection check, Insert Volume past its name check.
Resolved ==
    /\ last'.op \in {"apply", "insert"}
    /\ last'.err \notin {"CannotChangeMaterial", "DuplicateVolumeName", "NoDialog"}

\* C4: resolving is idempotent: when a name was resolved with success and the
\* next handler resolves it again with success, the second resolution returns
\* the instance the first returned, comes from the registry, constructs nothing
\* and leaves the registry's material map as it was.
C4_ResolveIsIdempotent ==
    [][(/\ last.op \in {"apply", "insert"}
        /\ last.result # 0
        /\ Resolved
        /\ last'.name = last.name
        /\ last'.result # 0)
       => (/\ last'.result = last.result
           /\ last'.source = "registry"
           /\ last'.nistCalls = 0
           /\ matObj' = matObj
           /\ materialDict' = materialDict)]_vars

\* C4 witness: a user-defined name was applied twice in a row, the first time
\* materialized from its catalog record, and both calls succeeded.
C4_Witness ==
    /\ last.op = "apply"
    /\ last.ok
    /\ last.repeat
    /\ last.prevSource = "user"
    /\ last.name \in DOMAIN userMaterials

\* C5: deleting a user material removes only its catalog entry: the registry's
\* material map keeps every entry with the instance it had, and no volume changes.
C5_DeleteKeepsMaterializedInstance ==
    [][last'.op = "deleteMaterial" =>
           (/\ materialDict' = materialDict
            /\ matObj' = matObj
            /\ lvObj' = lvObj)]_vars

\* C6: once a name is a key of the registry's material map it stays a key of it,
\* bound to the same instance, whatever handler runs.
C6_MaterializedNameStays ==
    [][\A n \in DOMAIN materialDict :
           n \in DOMAIN materialDict' /\ materialDict'[n] = materialDict[n]]_vars

\* C7: a name that is already a key of the registry's material map resolves to
\* that entry, in Apply and in Insert Volume alike, whatever its prefix and
\* whatever the catalog holds: no reference-material call is made, the catalog
\* is not consulted, nothing is constructed and the registry is unchanged.
C7_RegistryFirst ==
    [][(Resolved /\ last'.name \in DOMAIN materialDict)
       => (/\ last'.source = "registry"
           /\ last'.result = materialDict[last'.name]
           /\ last'.nistCalls = 0
           /\ last'.userLookups = 0
           /\ matObj' = matObj
           /\ materialDict' = materialDict
           /\ userMaterials' = userMaterials
           /\ last'.op = "apply" =>
                  lvObj'[logicalVolumeDict[last'.volume]].material = materialDict[last'.name])]_vars

\* C7 witness: Insert Volume took G4_AIR from the registry while the catalog
\* also holds a record named G4_AIR.
C7_Witness ==
    /\ last.op = "insert"
    /\ last.ok
    /\ last.name = "G4_AIR"
    /\ last.source = "registry"
    /\ "G4_AIR" \in DOMAIN userMaterials

\* C8: for a G4_ name that is not in the registry, when the reference-material
\* call raises, the resolution returns the registry's entry of that name if one
\* exists afterwards, and fails with UnknownReferenceMaterial otherwise.
C8_NistFailureFallsBackToRegistry ==
    [][(/\ Resolved
        /\ StartsWithG4(last'.name)
        /\ last'.name \notin DOMAIN materialDict
        /\ last'.raised)
       => IF last'.name \in DOMAIN materialDict'
          THEN /\ last'.result = materialDict'[last'.name]
               /\ last'.err # "UnknownReferenceMaterial"
          ELSE /\ last'.result = 0
               /\ ~last'.ok
               /\ last'.err = "UnknownReferenceMaterial"]_vars

\* C8 witness: Apply succeeded with a G4_ name although the reference-material
\* call raised, because the registry held the entry afterwards.
C8_Witness ==
    /\ last.op = "apply"
    /\ last.raised
    /\ last.ok
    /\ StartsWithG4(last.name)
    /\ lvObj[logicalVolumeDict[last.volume]].material = materialDict[last.name]

\* C9: applying a name that is not in the registry, has no G4_ prefix and is
\* not in the catalog fails with UnknownMaterial; nothing is created, registry
\* and catalog are unchanged, and the volume keeps its material.
C9_UnknownNameChangesNothing ==
    [][(/\ last'.op = "apply"
        /\ Resolved
        /\ last'.name \notin DOMAIN materialDict
        /\ ~StartsWithG4(last'.name)
        /\ last'.name \notin DOMAIN userMaterials)
       => (/\ ~last'.ok
           /\ last'.err = "UnknownMaterial"
           /\ last'.result = 0
           /\ materialDict' = materialDict
           /\ matObj' = matObj
           /\ userMaterials' = userMaterials
           /\ lvObj' = lvObj
           /\ volume_tree' = volume_tree)]_vars

\* C9 witness: Apply of the name Nope, which nothing defines, failed with
\* UnknownMaterial on a volume that has a material.
C9_Witness ==
    /\ last.op = "apply"
    /\ last.name = "Nope"
    /\ last.err = "UnknownMaterial"
    /\ lvObj[logicalVolumeDict[last.volume]].material # 0

\* C10: resolving a mixture record whose mass fractions sum to a value outside
\* [0.999, 1.001] fails with InvalidMaterialRecord and adds no material to the
\* registry, however the record got into the catalog.
C10_BadFractionSumRejected ==
    [][(/\ last'.op = "apply"
        /\ Resolved
        /\ last'.name \notin DOMAIN materialDict
        /\ ~StartsWithG4(last'.name)
        /\ last'.name \in DOMAIN userMaterials
        /\ userMaterials[last'.name].type = "mixture"
        /\ FractionsOutOfTolerance(userMaterials[last'.name].composition)
        /\ last'.err # "ExternalLibraryFailure")
       => (/\ ~last'.ok
           /\ last'.err = "InvalidMaterialRecord"
           /\ materialDict' = materialDict)]_vars

\* C11: materializing a mixture record never fails only because an element
\* symbol is unknown to the element database: in Apply and in Insert Volume
\* alike, a mixture record with valid fractions whose library calls succeed is
\* materialized with every one of its element rows.
C11_UnknownElementGetsPlaceholder ==
    [][(/\ Resolved
        /\ last'.name \notin DOMAIN materialDict
        /\ ~StartsWithG4(last'.name)
        /\ last'.name \in DOMAIN userMaterials
        /\ userMaterials[last'.name].type = "mixture"
        /\ ~FractionsOutOfTolerance(userMaterials[last'.name].composition)
        /\ ~(last'.err = "ExternalLibraryFailure" /\ last'.result = 0))
       => (/\ last'.result # 0
           /\ matObj'[last'.result].components = userMaterials[last'.name].composition)]_vars

\* ------------------------------------------------------------------ material-list properties

\* C12: a material list, the dropdown's and the Insert Volume dialog's alike,
\* holds the registry's material names, the reference names and the catalog's
\* names, each name once, in case-insensitive order.
C12_ListIsSortedUnion ==
    last.op \in {"list", "dialogList"} =>
        LET l == last.listing
        IN  /\ DOMAIN materialDict \cup DOMAIN userMaterials \subseteq Range(l)
            /\ Range(l) \subseteq DOMAIN materialDict \cup DOMAIN userMaterials \cup NistList
            /\ (last.fetch = "ok" \/ (last.fetch = "none" /\ cached_nist_materials = <<NistList>>))
                  => NistList \subseteq Range(l)
            /\ \A i, j \in DOMAIN l : l[i] = l[j] => i = j
            /\ \A i, j \in DOMAIN l : i < j => LowerKeyRank[l[i]] <= LowerKeyRank[l[j]]

\* C13: listing the available materials materializes nothing: the registry's
\* material map, volume map and placement map, the volumes, the placements and
\* the catalog are after the listing what they were before it.
C13_ListingChangesNoSource ==
    [][last'.op \in {"list", "dialogList"} =>
           /\ materialDict' = materialDict
           /\ matObj' = matObj
           /\ logicalVolumeDict' = logicalVolumeDict
           /\ lvObj' = lvObj
           /\ physicalVolumeDict' = physicalVolumeDict
           /\ pvObj' = pvObj
           /\ userMaterials' = userMaterials]_vars

\* C13 witness: the dropdown was refreshed and lists a reference material and a
\* catalog material that the registry does not hold.
C13_Witness ==
    /\ last.op = "list"
    /\ \E n \in Range(last.listing) : StartsWithG4(n) /\ n \notin DOMAIN materialDict
    /\ \E n \in Range(last.listing) : n \in DOMAIN userMaterials /\ n \notin DOMAIN materialDict

\* C14: the reference list is cached by a successful fetch and only by one: a
\* dropdown listing that finds the fetched names cached fetches nothing, keeps
\* the cache and lists those names; a listing made after a fetch that failed
\* fetches again.
C14_CachedAfterSuccessOnly ==
    [][last'.op = "list" =>
           IF cached_nist_materials = <<NistList>>
           THEN /\ last'.fetch = "none"
                /\ cached_nist_materials' = cached_nist_materials
                /\ NistList \subseteq Range(last'.listing)
           ELSE last'.fetch # "none"]_vars

\* ------------------------------------------------------------------ display properties

\* C15: building the tree of a registry without a world volume fails with
\* NoWorldVolume, reported by the handler that asked for the tree; it does not
\* end as a success with an empty tree.
C15_NoWorldVolumeIsReported ==
    (worldVolume = 0 /\ last.op \in {"load", "refresh"}) =>
        (~last.ok /\ last.err = "NoWorldVolume")

\* C16: the world volume is never renamed or deleted: every step leaves the
\* world pointer, the world's name and the world's key in the volume map as they
\* were, and a rename or delete aimed at the world volume is refused and leaves
\* the volume map, the placement map, the volumes and the placements unchanged.
C16_WorldVolumeIsStable ==
    [][/\ worldVolume' = worldVolume
       /\ lvObj'[worldVolume].name = lvObj[worldVolume].name
       /\ WorldName \in DOMAIN logicalVolumeDict'
       /\ logicalVolumeDict'[WorldName] = worldVolume
       /\ (last'.op \in {"rename", "delete"} /\ last'.volume = WorldName) =>
             /\ logicalVolumeDict' = logicalVolumeDict
             /\ physicalVolumeDict' = physicalVolumeDict
             /\ lvObj' = lvObj
             /\ pvObj' = pvObj
             /\ (last'.op = "delete" \/ last'.name # last'.volume) =>
                    (~last'.ok /\ last'.err = "WorldVolume")]_vars

\* C16 witness: a rename of the world volume W to the free name c was refused.
C16_Witness ==
    /\ last.op = "rename"
    /\ last.volume = WorldName
    /\ last.name = "c"
    /\ last.err = "WorldVolume"
    /\ "c" \notin DOMAIN logicalVolumeDict

\* C17: volume names stay unique: every key of the volume map is the name of
\* the volume stored under it, and an insert or a rename whose name is already
\* a key fails with DuplicateVolumeName and changes neither the volume map, the
\* placement map, the volumes, the placements nor the materials.
C17_DuplicateNameIsRejected ==
    [][/\ \A n \in DOMAIN logicalVolumeDict' : lvObj'[logicalVolumeDict'[n]].name = n
       /\ \A n, m \in DOMAIN logicalVolumeDict' :
             logicalVolumeDict'[n] = logicalVolumeDict'[m] => n = m
       /\ (\/ /\ last'.op = "insert"
              /\ last'.err # "NoDialog"
              /\ last'.volume \in DOMAIN logicalVolumeDict
           \/ /\ last'.op = "rename"
              /\ last'.name \in DOMAIN logicalVolumeDict
              /\ last'.name # last'.volume
              /\ last'.volume # WorldName) =>
             /\ ~last'.ok
             /\ last'.err = "DuplicateVolumeName"
             /\ logicalVolumeDict' = logicalVolumeDict
             /\ physicalVolumeDict' = physicalVolumeDict
             /\ lvObj' = lvObj
             /\ pvObj' = pvObj
             /\ materialDict' = materialDict
             /\ matObj' = matObj]_vars

\* C17 witness: an insert under an existing volume name was refused although its
\* material, a catalog record not yet in the registry, could have been made.
C17_Witness ==
    /\ last.op = "insert"
    /\ last.err = "DuplicateVolumeName"
    /\ last.volume \in DOMAIN logicalVolumeDict
    /\ last.name \in DOMAIN userMaterials
    /\ last.name \notin DOMAIN materialDict

\* C18: a child given as a bare name in a volume's own child list contributes
\* the edge it would contribute as an object: the edges the tree builder takes
\* from the child lists are the edges the child lists describe.
C18_StringChildInChildListIsAnEdge ==
    DaughterEdges(Geometry) = ListedChildren(Geometry)

\* The handler that ran last changed the volumes and rebuilt the display.
Mutated ==
    /\ last.ok
    /\ \/ last.op \in {"insert", "delete"}
       \/ last.op = "rename" /\ last.name # last.volume

\* C19: the tree is always recomputed in full: after a refresh and after every
\* successful insert, delete or rename the displayed rows are the tree of the
\* registry as it then is, whatever was displayed before.
C19_TreeIsRecomputed ==
    (last.op = "refresh" \/ Mutated) => volume_tree = populate_volume_tree(Geometry)

\* C19 witness: a volume was deleted while the flat list was on display, and the
\* display is now the tree of the registry without that volume.
C19_Witness ==
    /\ last.op = "delete"
    /\ last.ok
    /\ SearchText(search_var) # ""
    /\ last.volume \notin DOMAIN logicalVolumeDict
    /\ volume_tree = populate_volume_tree(Geometry)
    /\ volume_tree # <<>>

\* C20: the display follows the search text: with a world volume, after a
\* change of the search text and after every successful insert, delete or
\* rename, the displayed rows are the tree when the trimmed text is empty and
\* the flat list of the matching volumes when it is not.
C20_DisplayFollowsSearchText ==
    (worldVolume # 0 /\ (last.op = "filter" \/ Mutated)) =>
        volume_tree = IF SearchText(search_var) = ""
                      THEN populate_volume_tree(Geometry)
                      ELSE FlatRows(Geometry, SearchText(search_var))

\* C21: after the search text was changed to a text that is not blank, the
\* display is the flat list of exactly the volume-map names that contain the
\* lower-cased trimmed text in their lower-cased name, each once, in name order,
\* without a parent and with its material name or the assembly marker, whether
\* or not the volume hangs under the world volume; after a change to a blank
\* text the display is the full tree.
C21_FilterListsMatchingNames ==
    last.op = "filter" =>
        IF SearchText(search_var) = ""
        THEN volume_tree = populate_volume_tree(Geometry)
        ELSE /\ EmittedNames(volume_tree) =
                    {n \in DOMAIN logicalVolumeDict : NameContains(SearchText(search_var), n)}
             /\ \A i, j \in DOMAIN volume_tree :
                   i < j => NameRank[volume_tree[i].name] < NameRank[volume_tree[j].name]
             /\ \A i \in DOMAIN volume_tree :
                   /\ volume_tree[i].parent = NoName
                   /\ volume_tree[i].mat = MatNameOf(Geometry, volume_tree[i].name)

\* ------------------------------------------------------------------ catalog-file properties

\* C22: a failure to write the catalog file is reported and does not undo the
\* update in memory: when the write fails in add_material the handler ends with
\* PersistenceFailure and the catalog in memory holds the record; when it fails
\* in remove_material the failure leaves the handler and the catalog in memory
\* no longer holds the record; the other records are untouched, and the file
\* holds the catalog of before the update, if it holds one at all.
C22_SaveFailureKeepsMemoryUpdate ==
    [][(/\ db_file.fault # "none"
        /\ \/ last'.op = "save" /\ last'.err # "InvalidMaterialRecord"
           \/ last'.op = "deleteMaterial")
       => (/\ ~last'.ok
           /\ last'.err = "PersistenceFailure"
           /\ IF last'.op = "save"
              THEN last'.name \in DOMAIN userMaterials'
              ELSE last'.name \in DOMAIN userMaterials /\ last'.name \notin DOMAIN userMaterials'
           /\ \A n \in (DOMAIN userMaterials \cup DOMAIN userMaterials') \ {last'.name} :
                 /\ n \in DOMAIN userMaterials
                 /\ n \in DOMAIN userMaterials'
                 /\ userMaterials'[n] = userMaterials[n]
           /\ db_file'.materials = db_file.materials)]_vars

\* C22 witness: a save of a new record failed on the file, the failure was
\* reported, and the catalog in memory holds a record the file does not hold.
C22_Witness ==
    /\ last.op = "save"
    /\ last.err = "PersistenceFailure"
    /\ last.name \in DOMAIN userMaterials
    /\ last.name \notin DOMAIN db_file.materials

\* ------------------------------------------------------------------ viewer properties

\* The handler that has just run changed the registry and got to its end.
Changed ==
    /\ last'.ok
    /\ \/ last'.op \in {"apply", "insert", "delete", "load"}
       \/ last'.op = "rename" /\ last'.name # last'.volume

\* C23: while the viewer file exists and the viewer process runs, every
\* successful insert, delete, rename, change of a volume's material and load
\* writes the viewer file once, from the registry as the handler leaves it, so
\* that the file holds that registry whenever the library's writer did not
\* raise; and a viewer process is started only on a file that was just written
\* in full from the registry.
C23_ViewerFileFollowsChanges ==
    [][/\ (Active(viewer) /\ Changed) =>
             /\ viewer'.writes = viewer.writes + 1
             /\ viewer'.wrote = "ok" => viewer'.content = <<Detector'>>
             /\ viewer'.temp_file
       /\ (viewer'.process = "running" /\ viewer.process # "running") =>
             /\ viewer'.wrote = "ok"
             /\ viewer'.writes = viewer.writes + 1
             /\ viewer'.launchedOn = <<Detector'>>
             /\ viewer'.content = <<Detector'>>]_vars

\* C23 witness: with a running viewer a volume was renamed, and the viewer file
\* holds the registry with the new name.
C23_Witness ==
    /\ last.op = "rename"
    /\ last.ok
    /\ last.name # last.volume
    /\ Active(viewer)
    /\ viewer.writes = 2
    /\ viewer.content = <<Detector>>
    /\ last.name \in DOMAIN viewer.content[1].geometry.logicalVolumeDict

\* ------------------------------------------------------------------ module properties

\* C24: the module has no user-material helpers of its own: no handler saves a
\* record to a user catalog or deletes one from it, and no material is ever made
\* from a catalog record; materials come from the registry and the geometry
\* library's reference materials only.
C24_NoLocalUserMaterialHelpers ==
    /\ last.op \notin {"save", "deleteMaterial"}
    /\ last.source # "user"

\* ------------------------------------------------------------------ mutation properties

\* The names that some placement, in the placement map or in a child list, gives
\* as its child.
PlacedNames(g) == {e[2] : e \in PlacementEdges(g) \cup ListedChildren(g)}

\* C25: Insert Volume is not transactional: when it fails after it has created
\* the volume and before a placement of it exists, the volume stays in the
\* volume map without a placement, the placements and the other volumes are as
\* before, no result is reported (the display and the viewer file are not
\* touched), and a reconcile of the registry gives the tree of before the
\* attempt, in which the new volume does not occur.
C25_PartialInsertLeavesOrphan ==
    [][(/\ last'.op = "insert"
        /\ ~last'.ok
        /\ last'.volume \notin DOMAIN logicalVolumeDict
        /\ last'.volume \in DOMAIN logicalVolumeDict')
       => (/\ last'.err \in {"InvalidPosition", "ExternalLibraryFailure"}
           /\ lvObj'[logicalVolumeDict'[last'.volume]].name = last'.volume
           /\ lvObj'[logicalVolumeDict'[last'.volume]].daughterVolumes = <<>>
           /\ \A n \in DOMAIN logicalVolumeDict :
                 /\ n \in DOMAIN logicalVolumeDict'
                 /\ logicalVolumeDict'[n] = logicalVolumeDict[n]
                 /\ lvObj'[logicalVolumeDict'[n]] = lvObj[logicalVolumeDict[n]]
           /\ physicalVolumeDict' = physicalVolumeDict
           /\ pvObj' = pvObj
           /\ last'.volume \notin PlacedNames(Geometry')
           /\ volume_tree' = volume_tree
           /\ viewer' = viewer
           /\ populate_volume_tree(Geometry') = populate_volume_tree(Geometry)
           /\ last'.volume \notin EmittedNames(populate_volume_tree(Geometry')))]_vars

\* C25 witness: an insert of c stopped at its position fields; c is in the volume
\* map, and the tree of the registry has a and B but not c.
C25_Witness ==
    /\ last.op = "insert"
    /\ last.err = "InvalidPosition"
    /\ last.volume = "c"
    /\ "c" \in DOMAIN logicalVolumeDict
    /\ EmittedNames(populate_volume_tree(Geometry)) = {"W", "a", "B"}
    /\ volume_tree = populate_volume_tree(Geometry)

\* How often x occurs in the sequence q.
Occurrences(q, x) == Cardinality({i \in DOMAIN q : q[i] = x})

\* C26: after a successful Insert Volume the new placement is in both
\* bookkeeping sources once: it is a value of the placement map, under one key,
\* and it occurs once in the child list of its parent, whatever the library's
\* placement constructor back-filled; and the tree built next shows the new
\* volume under its parent whenever the parent is shown.
C26_InsertedPlacementInBothSources ==
    [][(last'.op = "insert" /\ last'.ok) =>
          LET pv     == Len(pvObj')
              parent == pvObj'[pv].motherVolume.id
          IN  /\ Len(pvObj') = Len(pvObj) + 1
              /\ pvObj'[pv].logicalVolume = ObjRef(logicalVolumeDict'[last'.volume])
              /\ Cardinality({n \in DOMAIN physicalVolumeDict' : physicalVolumeDict'[n] = pv}) = 1
              /\ Occurrences(lvObj'[parent].daughterVolumes, pv) = 1
              /\ lvObj'[parent].name \in EmittedNames(volume_tree') =>
                    \E i \in DOMAIN volume_tree' :
                       /\ volume_tree'[i].name = last'.volume
                       /\ volume_tree'[i].parent = lvObj'[parent].name]_vars

\* C27: after a successful delete of a volume V of the volume map that is not
\* the world, V is not a key of the volume map, no placement of the placement
\* map and no placement in a child list of a volume of the map has V as its
\* child, and the tree built next has no row V; also when a placement of V was
\* in one of the two bookkeeping sources only.
C27_DeletedVolumeIsGone ==
    [][(/\ last'.op = "delete"
        /\ last'.ok
        /\ last'.volume \in DOMAIN logicalVolumeDict)
       => (/\ last'.volume # WorldName
           /\ last'.volume \notin DOMAIN logicalVolumeDict'
           /\ last'.volume \notin PlacedNames(Geometry')
           /\ \A p \in Range(physicalVolumeDict') :
                 pvObj'[p].logicalVolume # ObjRef(logicalVolumeDict[last'.volume])
           /\ \A m \in DOMAIN logicalVolumeDict' :
                 \A p \in Range(lvObj'[logicalVolumeDict'[m]].daughterVolumes) :
                    pvObj'[p].logicalVolume # ObjRef(logicalVolumeDict[last'.volume])
           /\ volume_tree' = populate_volume_tree(Geometry')
           /\ last'.volume \notin EmittedNames(volume_tree'))]_vars

\* C27 witness: a volume that was shown in the tree through a placement kept in
\* one bookkeeping source only was deleted, and the tree no longer shows it.
C27_Witness ==
    /\ last.op = "delete"
    /\ last.ok
    /\ last.source = "one"
    /\ last.volume \notin DOMAIN logicalVolumeDict
    /\ last.volume \notin EmittedNames(volume_tree)

\* The rows of a tree, their order left aside, with the name old read as new.
RenamedRows(rows, old, new) ==
    {[name   |-> IF rows[i].name = old THEN new ELSE rows[i].name,
      parent |-> IF rows[i].parent = old THEN new ELSE rows[i].parent,
      mat    |-> rows[i].mat] : i \in DOMAIN rows}

\* C28: after a successful rename of a volume of the map that is not the world,
\* the new name is bound to the volume object the old name was bound to and the
\* old name is no key; the placement map, the placements and every child list
\* are unchanged; and the tree built next is the tree of before with the old
\* name replaced by the new one, under the same parent, with the same children
\* and the same material, no row having the old name. This holds for placements
\* that give the volume as an object and for placements that give it as a name.
C28_RenameKeepsTreeShape ==
    [][(/\ last'.op = "rename"
        /\ last'.ok
        /\ last'.name # last'.volume
        /\ last'.volume \in DOMAIN logicalVolumeDict)
       => (/\ last'.name \in DOMAIN logicalVolumeDict'
           /\ logicalVolumeDict'[last'.name] = logicalVolumeDict[last'.volume]
           /\ last'.volume \notin DOMAIN logicalVolumeDict'
           /\ physicalVolumeDict' = physicalVolumeDict
           /\ pvObj' = pvObj
           /\ \A m \in DOMAIN lvObj : lvObj'[m].daughterVolumes = lvObj[m].daughterVolumes
           /\ volume_tree' = populate_volume_tree(Geometry')
           /\ RenamedRows(volume_tree', last'.volume, last'.name) = RenamedRows(volume_tree', "", "")
           /\ RenamedRows(volume_tree', "", "")
                 = RenamedRows(populate_volume_tree(Geometry), last'.volume, last'.name))]_vars

\* ------------------------------------------------------------------ resolver properties

\* C29: the two paths that make a material from a catalog record agree: for
\* every record whose name is not in the registry and has no G4_ prefix, the
\* material step of Insert Volume and the resolver of Apply both succeed or
\* both fail, leave the same names in the registry, and on success make
\* instances with the same density, composition, formula, state, temperature
\* and pressure.
C29_BothPathsMakeTheSameMaterial ==
    \A n \in DOMAIN userMaterials \ DOMAIN materialDict :
        ~StartsWithG4(n) =>
            \A lib \in {"ok", "fail"} :
                LET d == dialog_material(Registry, n, lib)
                    e == ensure_material_in_registry(Registry, n, lib)
                IN  /\ d.ok = e.ok
                    /\ DOMAIN d.md = DOMAIN e.md
                    /\ d.ok => d.mo[d.result] = e.mo[e.result]

\* C30: a name with the G4_ prefix that is not in the registry is resolved
\* through the reference catalog only: the user catalog is not looked up and
\* not changed, and when the reference call raised and left no registry entry
\* of that name the resolution fails as an unknown reference material and the
\* volume keeps its material, also when the user catalog holds a record under
\* that name, which the list of available names then shows.
C30_G4NameNeverUsesUserCatalog ==
    [][(/\ Resolved
        /\ StartsWithG4(last'.name)
        /\ last'.name \notin DOMAIN materialDict)
       => (/\ last'.userLookups = 0
           /\ last'.nistCalls = 1
           /\ last'.source = "nist"
           /\ userMaterials' = userMaterials
           /\ (last'.raised /\ last'.name \notin DOMAIN materialDict')
                 => (/\ ~last'.ok
                     /\ last'.err = "UnknownReferenceMaterial"
                     /\ last'.result = 0
                     /\ matObj' = matObj
                     /\ last'.op = "apply" => lvObj' = lvObj)
           /\ last'.name \in DOMAIN userMaterials
                 => \E i \in 1..Len(get_all_available_materials(materialDict', userMaterials',
                                                                <<>>, "fail").listing) :
                       get_all_available_materials(materialDict', userMaterials',
                                                   <<>>, "fail").listing[i] = last'.name)]_vars

\* C30 witness: Apply of G4_AIR has just failed as an unknown reference material
\* while the user catalog holds a record named G4_AIR and the registry has no
\* material of that name.
C30_Witness ==
    /\ last.op = "apply"
    /\ last.name = "G4_AIR"
    /\ ~last.ok
    /\ last.err = "UnknownReferenceMaterial"
    /\ last.raised
    /\ last.userLookups = 0
    /\ "G4_AIR" \in DOMAIN userMaterials
    /\ "G4_AIR" \notin DOMAIN materialDict

====
